---- MODULE Spec2Model ----
(***************************************************************************)
(* Model of the three-stage ingestion pipeline of src/src/archive_parser.rs *)
(* (driver `parse`, decompression threads, archive threads, parsing        *)
(* threads) with the flume channels that connect them, the temp extraction  *)
(* root on disk, and the per-(archive, topic) sink files opened by          *)
(* Output::new / FileWriter::new.                                           *)
(*                                                                         *)
(* A thread that panics (an `unwrap()` on an Err) unwinds: it leaves its    *)
(* loop and drops every Sender / Receiver it owns.                          *)
(***************************************************************************)
EXTENDS Integers, Sequences, FiniteSets, TLC

\* ------------------------------------------------------------------ bounds
\* configuration.decompression_threads / archive_threads / parsing_threads
NumDecompressionThreads == 2
NumArchiveThreads == 2
NumParsingThreads == 2
DecompressionThreads == 1..NumDecompressionThreads
ArchiveThreads == 1..NumArchiveThreads
ParsingThreads == 1..NumParsingThreads

\* ------------------------------------------------------------ input folder
\* What running `7z x <input> -o<temp_folder> -y` does on an archive file:
\* exit 0 with the directory <temp_folder>/<file_stem> on disk ("ok"), exit 0
\* with no such directory because the archive has no top-level folder of
\* that name ("ok_nodir"), exit non-zero before ("err") or after ("err_dir")
\* the directory was created.
ExtractorOutcomes == {"ok", "ok_nodir", "err", "err_dir"}

\* A directory entry: its file name as dot-separated components, whether it is
\* a directory, what the extractor does on it (a file) and the file names in
\* it (of the directory, or of the folder the archive holds).
File(name, extract, content) ==
  [name |-> name, is_dir |-> FALSE, extract |-> extract, content |-> content]
Dir(name, content) ==
  [name |-> name, is_dir |-> TRUE, extract |-> "folder", content |-> content]

\* The input folders a run is started on, in the order fs::read_dir yields
\* their entries: two archives that differ only in their extension and a
\* directory; four good archives with distinct stems; failing archives and
\* a directory.
InputFolders ==
  { << File(<<"a", "7z">>, "ok", <<"f1", "f2">>),
       Dir(<<"d">>, <<"f3", "f0">>),
       File(<<"a", "zip">>, "ok", <<"f2">>) >>,
    << File(<<"h", "7z">>, "ok", <<"f1">>),
       File(<<"b", "7z">>, "ok", <<"f0", "f2">>),
       File(<<"c", "7z">>, "ok", <<>>),
       File(<<"g", "7z">>, "ok", <<"f3">>) >>,
    << File(<<"x", "7z">>, "err_dir", <<"f1">>),
       File(<<"y", "7z">>, "ok_nodir", <<"f3">>),
       Dir(<<"e">>, <<"f1", "f2">>),
       File(<<"z", "7z">>, "err", <<>>) >> }

\* Path::file_stem: the file name without its last extension.
file_stem(name) == IF Len(name) > 1 THEN SubSeq(name, 1, Len(name) - 1) ELSE name

\* ---------------------------------------------------------- parser filters
\* configuration.parsers: an ordered list of {file_filter, parser}.  A regex
\* is modelled by the set of the file names (of FileNames) it matches.
FileNames == {"f0", "f1", "f2", "f3"}

parsers ==
  << [file_filter |-> {"f1", "f2"}, parser |-> "evtx"],
     [file_filter |-> {"f2", "f3"}, parser |-> "csv"],
     [file_filter |-> {"f2"}, parser |-> "hive"] >>

is_match(filter, file_name) == file_name \in filter

\* The topic a decoder opens its sink fan-out on: parse_evtx and parse_hive
\* use a fixed table name, parse_csv the topic of its mapping file.
TopicOf(parser) ==
  CASE parser = "evtx" -> "evtx"
    [] parser = "hive" -> "hive"
    [] OTHER -> "csv_topic"

\* -------------------------------------------------------------------- state
VARIABLES
  input_is_decompressed,  \* configuration.input_is_decompressed
  extractor_available,    \* whether the `7z` process can be started
  read_dir,               \* entries of the input folder not yet iterated
  driver,                 \* position of `parse`
  decompression_queue,    \* flume::unbounded::<PathBuf>
  dw,                     \* decompression threads
  archive_queue,          \* flume::bounded::<ArchiveMsg>(1)
  aw,                     \* archive threads
  parsing_queue,          \* flume::unbounded::<ParseMsg>
  pw,                     \* parsing threads
  reply_queue,            \* per-archive flume::unbounded::<Result<FileResultMsg, Error>>
  result_queue,           \* flume::unbounded::<ArchiveResultMsg>
  temp_folder,            \* sub-directories of the temp extraction root, with their files
  sink_files,             \* (archive_name, topic) -> state of its .jsonl file
  sent,                   \* history: entries the driver sent to Stage 1
  received,               \* history: summaries the driver received, per entry
  removed,                \* history: the messages whose folder an archive thread removed
  output,                 \* one Output (sink fan-out) built by a decoder call
  decoder,                \* the decoder call that owns `output`
  kafka,                  \* one KafkaWriter with its producer
  clickhouse,             \* one ClickhouseWriter with its writer task
  tuples,                 \* two envelopes (Tuple) built by decoders
  target_endian,          \* byte order of the build target
  csv,                    \* one call of the tabular decoder (input/csv.rs parse)
  srum,                   \* one call of SrumParser::parse_all_tables
  sid,                    \* one call of convert_sid
  catalog,                \* one call of Configuration::list_topics
  parse_task              \* one parse task, from parse_file to the summary

\* The pipeline of archive_parser.rs.
pipeline_vars ==
  << input_is_decompressed, extractor_available, read_dir, driver,
     decompression_queue, dw, archive_queue, aw, parsing_queue, pw,
     reply_queue, result_queue, temp_folder, sink_files, sent, received,
     removed >>

\* One sink fan-out and its decoder call, looked at on its own.
output_vars == << output, decoder >>

\* The components that are studied apart from the pipeline.
\* One bus sink, looked at on its own.
kafka_vars == << kafka >>

\* One store sink, looked at on its own.
clickhouse_vars == << clickhouse >>

\* The envelopes, looked at on their own.
tuple_vars == << tuples, target_endian >>

\* One call of a decoder, looked at on its own (with its fan-out).
csv_vars == << csv >>
srum_vars == << srum >>

\* One call of a function, looked at on its own.
sid_vars == << sid >>
catalog_vars == << catalog >>
task_vars == << parse_task >>
function_vars == << sid_vars, catalog_vars, task_vars >>

component_vars ==
  << output_vars, kafka_vars, clickhouse_vars, tuple_vars, csv_vars, srum_vars,
     function_vars >>

\* What a step of one component leaves alone.
decoder_vars == << csv_vars, srum_vars, function_vars >>
outside_output == << pipeline_vars, kafka_vars, clickhouse_vars, tuple_vars, decoder_vars >>
outside_kafka == << pipeline_vars, output_vars, clickhouse_vars, tuple_vars, decoder_vars >>
outside_clickhouse == << pipeline_vars, output_vars, kafka_vars, tuple_vars, decoder_vars >>
outside_tuple == << pipeline_vars, output_vars, kafka_vars, clickhouse_vars, decoder_vars >>
outside_csv ==
  << pipeline_vars, decoder, kafka_vars, clickhouse_vars, tuple_vars, srum_vars,
     function_vars >>
outside_srum ==
  << pipeline_vars, decoder, kafka_vars, clickhouse_vars, tuple_vars, csv_vars,
     function_vars >>
outside_sid ==
  << pipeline_vars, output_vars, kafka_vars, clickhouse_vars, tuple_vars, csv_vars,
     srum_vars, catalog_vars, task_vars >>
outside_catalog ==
  << pipeline_vars, output_vars, kafka_vars, clickhouse_vars, tuple_vars, csv_vars,
     srum_vars, sid_vars, task_vars >>
outside_task == << pipeline_vars, kafka_vars, clickhouse_vars, tuple_vars, csv_vars, sid_vars, catalog_vars >>

vars == << pipeline_vars, component_vars >>

\* A folder path: the directory it lies in and its last component.
TempPath(file) == [parent |-> "temp", file_name |-> file]
InputPath(name) == [parent |-> "input", file_name |-> name]
NoPath == [parent |-> "", file_name |-> <<>>]

AllEntries == UNION {{l[i] : i \in 1..Len(l)} : l \in InputFolders}
TempNames == {file_stem(e.name) : e \in {x \in AllEntries : ~x.is_dir}}
ArchiveNames == {file_stem(e.name) : e \in AllEntries} \cup {e.name : e \in AllEntries}
Topics == {TopicOf(parsers[i].parser) : i \in 1..Len(parsers)}

\* A directory of the temp root: whether it exists and the files in it.
NoDirectory == [exists |-> FALSE, files |-> <<>>]

NoMsg ==
  [folder |-> NoPath, in_error |-> FALSE, is_temp_folder |-> FALSE,
   decompress_duration |-> "zero", src |-> <<>>]

NoParseMsg == [file |-> "", config |-> "", archive_name |-> <<>>, reply |-> 0, src |-> <<>>]

IdleDecompressionThread == [pc |-> "recv", msg |-> NoMsg]

IdleArchiveThread ==
  [pc |-> "recv", msg |-> NoMsg, num_errors |-> 0, listing |-> <<>>,
   tasks |-> <<>>, answered |-> 0, failed |-> 0]

IdleParsingThread == [pc |-> "recv", msg |-> NoParseMsg]

\* No fan-out is under study.
NoOutput == [list |-> <<>>, num_rows |-> 0, state |-> "none", flushed |-> "none"]
NoDecoder == [produced |-> <<>>, result |-> "none"]
NoKafkaWriter ==
  [has_error |-> FALSE, queue |-> <<>>, submitted |-> <<>>, results |-> <<>>,
   writer |-> [pc |-> "none", data |-> 0, retries |-> 0]]

NoClickhouseWriter ==
  [has_error |-> FALSE, queue |-> <<>>, reply |-> "none",
   task |-> [pc |-> "none", flush |-> FALSE, insert_error |-> FALSE],
   writer |-> [pc |-> "none", data |-> 0],
   writes |-> 0, results |-> <<>>, enqueued |-> <<>>]

\* The components at rest, for the specifications that do not study them.
OutputAtRest == output = NoOutput /\ decoder = NoDecoder
KafkaAtRest == kafka = NoKafkaWriter
ClickhouseAtRest == clickhouse = NoClickhouseWriter
TupleAtRest == tuples = <<>> /\ target_endian = "little"

\* Option<T> is a record [some, value].
None == [some |-> FALSE, value |-> 0]
Some(value) == [some |-> TRUE, value |-> value]

\* No decoder call is under study.
NoCall == [result |-> "none"]
FunctionsAtRest == sid = NoCall /\ catalog = NoCall /\ parse_task = NoCall
DecodersAtRest == csv = NoCall /\ srum = NoCall /\ FunctionsAtRest

Init ==
  /\ OutputAtRest
  /\ KafkaAtRest
  /\ ClickhouseAtRest
  /\ TupleAtRest
  /\ DecodersAtRest
  /\ input_is_decompressed \in BOOLEAN
  /\ extractor_available \in BOOLEAN
  /\ read_dir \in InputFolders
  /\ driver = "enqueue"
  /\ decompression_queue = <<>>
  /\ dw = [w \in DecompressionThreads |-> IdleDecompressionThread]
  /\ archive_queue = <<>>
  /\ aw = [w \in ArchiveThreads |-> IdleArchiveThread]
  /\ parsing_queue = <<>>
  /\ pw = [w \in ParsingThreads |-> IdleParsingThread]
  /\ reply_queue = [w \in ArchiveThreads |-> <<>>]
  /\ result_queue = <<>>
  /\ temp_folder = [n \in TempNames |-> NoDirectory]
  /\ sink_files = [k \in ArchiveNames \X Topics |-> "absent"]
  /\ sent = {}
  /\ received = [e \in {x.name : x \in AllEntries} |-> 0]
  /\ removed = {}

\* ------------------------------------------------- channel connectivity
\* A flume channel is disconnected for its receivers when every Sender is
\* dropped, and for its senders when every Receiver is dropped.  A thread
\* owns its clones until it leaves its loop (normally or by a panic).
Gone == {"exited", "panicked"}

\* Stage 1: the only Sender is `decompression_service` in `parse`.
DecompressionSenderAlive == driver = "enqueue"
DecompressionReceiversAlive == \E w \in DecompressionThreads : dw[w].pc \notin Gone
\* Stage 2: one Sender clone per decompression thread, one Receiver per archive thread.
ArchiveSendersAlive == \E w \in DecompressionThreads : dw[w].pc \notin Gone
ArchiveReceiversAlive == \E w \in ArchiveThreads : aw[w].pc \notin Gone
\* Stage 3: one Sender clone per archive thread, one Receiver per parsing thread.
ParsingSendersAlive == \E w \in ArchiveThreads : aw[w].pc \notin Gone
ParsingReceiversAlive == \E w \in ParsingThreads : pw[w].pc \notin Gone
\* Result queue: one Sender clone per archive thread, the Receiver in `parse`.
ResultSendersAlive == \E w \in ArchiveThreads : aw[w].pc \notin Gone
ResultReceiverAlive == driver \in {"enqueue", "drain"}
\* An archive thread that keeps its own `reply` Sender while it waits (no
\* drop(reply) before the receive loop): the channel never disconnects.
ReplySendersAliveNoDrop(w) == w \in ArchiveThreads

\* The reply channel of archive thread w: after drop(reply) its Senders are the
\* clones inside the ParseMsg still queued or held by a parsing thread.
ReplySendersAlive(w) ==
  \/ \E i \in 1..Len(parsing_queue) : parsing_queue[i].reply = w
  \/ \E p \in ParsingThreads : pw[p].pc = "parsing" /\ pw[p].msg.reply = w

\* Sender::send on an unbounded channel: Err (the message is dropped) when
\* no Receiver is left.
SendTo(queue, alive, msg) == IF alive THEN Append(queue, msg) ELSE queue

\* ------------------------------------------------------------------ driver
\* One iteration of `for path in read_dir`.
SendsToStage1(path) == path.is_dir = input_is_decompressed

DriverEnqueue ==
  /\ driver = "enqueue"
  /\ read_dir # <<>>
  /\ LET path == Head(read_dir) IN
       /\ read_dir' = Tail(read_dir)
       /\ IF SendsToStage1(path)
          THEN IF DecompressionReceiversAlive
               THEN /\ decompression_queue' = Append(decompression_queue, path)
                    /\ sent' = sent \cup {path.name}
                    /\ driver' = driver
               ELSE \* send fails: `?` returns the error
                    /\ driver' = "failed"
                    /\ UNCHANGED << decompression_queue, sent >>
          ELSE UNCHANGED << decompression_queue, sent, driver >>
  /\ UNCHANGED component_vars
  /\ UNCHANGED << input_is_decompressed, extractor_available, removed, dw, archive_queue,
                  aw, parsing_queue, pw, reply_queue, result_queue, temp_folder,
                  sink_files, received >>

\* drop(decompression_service)
DriverDrop ==
  /\ driver = "enqueue"
  /\ read_dir = <<>>
  /\ driver' = "drain"
  /\ UNCHANGED component_vars
  /\ UNCHANGED << input_is_decompressed, extractor_available, removed, read_dir,
                  decompression_queue, dw, archive_queue, aw, parsing_queue, pw,
                  reply_queue, result_queue, temp_folder, sink_files, sent,
                  received >>

\* while let Ok(result) = receiver.recv()
DriverRecv ==
  /\ driver = "drain"
  /\ result_queue # <<>>
  /\ received' = [received EXCEPT ![Head(result_queue).src] = @ + 1]
  /\ result_queue' = Tail(result_queue)
  /\ UNCHANGED component_vars
  /\ UNCHANGED << input_is_decompressed, extractor_available, removed, read_dir, driver,
                  decompression_queue, dw, archive_queue, aw, parsing_queue, pw,
                  reply_queue, temp_folder, sink_files, sent >>

\* recv() returns Err: the queue is empty and every archive_reply is dropped.
DriverReturn ==
  /\ driver = "drain"
  /\ result_queue = <<>>
  /\ ~ResultSendersAlive
  /\ driver' = "returned"
  /\ UNCHANGED component_vars
  /\ UNCHANGED << input_is_decompressed, extractor_available, removed, read_dir,
                  decompression_queue, dw, archive_queue, aw, parsing_queue, pw,
                  reply_queue, result_queue, temp_folder, sink_files, sent,
                  received >>

\* ---------------------------------------------------- decompression stage
CreatesDir(outcome) == outcome \in {"ok", "err_dir"}
ExitFailure(outcome) == outcome \in {"err", "err_dir"}

Range(seq) == {seq[i] : i \in 1..Len(seq)}

\* The extractor writes into <temp_folder>/<file_stem> with -y: the directory
\* is created when missing and gets the archive's files next to those
\* already there (all of them on success, none after the failure).
Extract(dirs, input_path) ==
  IF CreatesDir(input_path.extract)
  THEN [dirs EXCEPT ![file_stem(input_path.name)] =
          [exists |-> TRUE,
           files |-> IF ExitFailure(input_path.extract) THEN @.files
                     ELSE @.files \o SelectSeq(input_path.content,
                                               LAMBDA f : f \notin Range(@.files))]]
  ELSE dirs

\* The message built for a directory input (Duration::from_secs(0)).
FolderMsg(input_path) ==
  [folder |-> InputPath(input_path.name), in_error |-> FALSE,
   is_temp_folder |-> FALSE, decompress_duration |-> "zero",
   src |-> input_path.name]

\* The message built after the extractor ran on a file input
\* (instant.elapsed()).
ExtractedMsg(input_path, outcome) ==
  [folder |-> TempPath(file_stem(input_path.name)), in_error |-> ExitFailure(outcome),
   is_temp_folder |-> TRUE, decompress_duration |-> "elapsed",
   src |-> input_path.name]

\* receiver.recv() returned a path: build the ArchiveMsg (running the
\* extractor on a file).  Command::output().unwrap() panics when the process
\* cannot be started.
DwRecv(w) ==
  /\ dw[w].pc = "recv"
  /\ decompression_queue # <<>>
  /\ decompression_queue' = Tail(decompression_queue)
  /\ LET input_path == Head(decompression_queue) IN
       IF input_path.is_dir
       THEN /\ dw' = [dw EXCEPT ![w] = [pc |-> "send", msg |-> FolderMsg(input_path)]]
            /\ UNCHANGED temp_folder
       ELSE IF ~extractor_available
       THEN /\ dw' = [dw EXCEPT ![w] = [pc |-> "panicked", msg |-> NoMsg]]
            /\ UNCHANGED temp_folder
       ELSE /\ temp_folder' = Extract(temp_folder, input_path)
            /\ dw' = [dw EXCEPT ![w] = [pc |-> "send",
                                        msg |-> ExtractedMsg(input_path, input_path.extract)]]
  /\ UNCHANGED component_vars
  /\ UNCHANGED << input_is_decompressed, extractor_available, removed, read_dir, driver,
                  archive_queue, aw, parsing_queue, pw, reply_queue, result_queue,
                  sink_files, sent, received >>

\* archive_sender.send(archive_msg) on the bounded(1) channel: blocks while
\* the queue is full; Err (logged) when every archive thread is gone.
ArchiveQueueCapacity == 1

DwSend(w) ==
  /\ dw[w].pc = "send"
  /\ \/ ~ArchiveReceiversAlive
     \/ Len(archive_queue) < ArchiveQueueCapacity
  /\ archive_queue' = SendTo(archive_queue, ArchiveReceiversAlive, dw[w].msg)
  /\ dw' = [dw EXCEPT ![w] = IdleDecompressionThread]
  /\ UNCHANGED component_vars
  /\ UNCHANGED << input_is_decompressed, extractor_available, removed, read_dir, driver,
                  decompression_queue, aw, parsing_queue, pw, reply_queue,
                  result_queue, temp_folder, sink_files, sent, received >>

\* receiver.recv() returns Err: the loop ends, the thread's clones are dropped.
DwExit(w) ==
  /\ dw[w].pc = "recv"
  /\ decompression_queue = <<>>
  /\ ~DecompressionSenderAlive
  /\ dw' = [dw EXCEPT ![w].pc = "exited"]
  /\ UNCHANGED component_vars
  /\ UNCHANGED << input_is_decompressed, extractor_available, removed, read_dir, driver,
                  decompression_queue, archive_queue, aw, parsing_queue, pw,
                  reply_queue, result_queue, temp_folder, sink_files, sent,
                  received >>

\* ------------------------------------------------------------ archive stage
\* An inner loop without the `found` flag: every match sends a ParseMsg.
RECURSIVE MatchParsersNoFound(_, _, _, _)
MatchParsersNoFound(file_name, i, found, acc) ==
  IF i > Len(parsers) THEN acc
  ELSE IF is_match(parsers[i].file_filter, file_name)
       THEN MatchParsersNoFound(file_name, i + 1, TRUE,
                                [acc EXCEPT !.tasks =
                                   Append(@, [file |-> file_name,
                                              config |-> parsers[i].parser])])
       ELSE MatchParsersNoFound(file_name, i + 1, found, acc)

\* The inner `for parser in &parsers` of one file, from filter i on: the first
\* match sends a ParseMsg, every further match counts an error.
RECURSIVE MatchParsers(_, _, _, _)
MatchParsers(file_name, i, found, acc) ==
  IF i > Len(parsers) THEN acc
  ELSE IF is_match(parsers[i].file_filter, file_name)
       THEN IF found
            THEN MatchParsers(file_name, i + 1, TRUE,
                              [acc EXCEPT !.num_errors = @ + 1])
            ELSE MatchParsers(file_name, i + 1, TRUE,
                              [acc EXCEPT !.tasks =
                                 Append(@, [file |-> file_name,
                                            config |-> parsers[i].parser])])
       ELSE MatchParsers(file_name, i + 1, found, acc)

\* The outer `for path in read_dir` over the files k.. of the listing.
RECURSIVE MatchFiles(_, _, _)
MatchFiles(listing, k, acc) ==
  IF k > Len(listing) THEN acc
  ELSE MatchFiles(listing, k + 1, MatchParsers(listing[k], 1, FALSE, acc))

\* The ParseMsg of a task of the archive handled by archive thread w.
ParseMsgOf(task, archive_msg, w) ==
  [file |-> task.file, config |-> task.config,
   archive_name |-> archive_msg.folder.file_name, reply |-> w,
   src |-> archive_msg.src]

RECURSIVE SendAll(_, _, _, _)
SendAll(queue, tasks, archive_msg, w) ==
  IF tasks = <<>> THEN queue
  ELSE SendAll(SendTo(queue, ParsingReceiversAlive, ParseMsgOf(Head(tasks), archive_msg, w)),
               Tail(tasks), archive_msg, w)

\* fs::read_dir(&archive_msg.folder) succeeds on an existing directory.
FolderExists(folder) ==
  \/ folder.parent = "input"
  \/ folder.parent = "temp" /\ temp_folder[folder.file_name].exists

\* The file names read_dir yields for an existing folder.
FolderListing(folder) ==
  IF folder.parent = "temp" THEN temp_folder[folder.file_name].files
  ELSE (CHOOSE e \in AllEntries : e.is_dir /\ e.name = folder.file_name).content

Summary(archive_msg, num_errors) ==
  [folder |-> archive_msg.folder.file_name, num_errors |-> num_errors,
   src |-> archive_msg.src]

\* A summary of a failed decompression that reports no error.
ErrorSummaryNoError(archive_msg) == Summary(archive_msg, 0)

\* The summary of an archive whose decompression is in error.
ErrorSummary(archive_msg) == Summary(archive_msg, 1)

\* archive_receiver.recv() returned a message.  in_error: the summary is sent
\* at once.  Otherwise the folder is listed (read_dir(..).unwrap() panics when
\* it does not exist), every file is matched and submitted, reply is dropped.
AwRecv(w) ==
  /\ aw[w].pc = "recv"
  /\ archive_queue # <<>>
  /\ archive_queue' = Tail(archive_queue)
  /\ LET archive_msg == Head(archive_queue) IN
       IF archive_msg.in_error
       THEN /\ result_queue' = SendTo(result_queue, ResultReceiverAlive,
                                      ErrorSummary(archive_msg))
            /\ aw' = [aw EXCEPT ![w] = IdleArchiveThread]
            /\ UNCHANGED parsing_queue
       ELSE IF ~FolderExists(archive_msg.folder)
       THEN /\ aw' = [aw EXCEPT ![w] = [IdleArchiveThread EXCEPT !.pc = "panicked"]]
            /\ UNCHANGED << parsing_queue, result_queue >>
       ELSE LET listing == FolderListing(archive_msg.folder)
                r == MatchFiles(listing, 1, [num_errors |-> 0, tasks |-> <<>>]) IN
            /\ parsing_queue' = SendAll(parsing_queue, r.tasks, archive_msg, w)
            /\ aw' = [aw EXCEPT ![w] =
                        [pc |-> "wait", msg |-> archive_msg,
                         num_errors |-> r.num_errors, listing |-> listing,
                         tasks |-> r.tasks, answered |-> 0, failed |-> 0]]
            /\ UNCHANGED result_queue
  /\ UNCHANGED component_vars
  /\ UNCHANGED << input_is_decompressed, extractor_available, removed, read_dir, driver,
                  decompression_queue, dw, pw, reply_queue, temp_folder,
                  sink_files, sent, received >>

\* One iteration of `while let Ok(result) = receiver.recv()`.
AwRecvResult(w) ==
  /\ aw[w].pc = "wait"
  /\ reply_queue[w] # <<>>
  /\ reply_queue' = [reply_queue EXCEPT ![w] = Tail(@)]
  /\ aw' = [aw EXCEPT ![w].answered = @ + 1,
                      ![w].num_errors = IF Head(reply_queue[w]) = "Err" THEN @ + 1 ELSE @]
  /\ UNCHANGED component_vars
  /\ UNCHANGED << input_is_decompressed, extractor_available, removed, read_dir, driver,
                  decompression_queue, dw, archive_queue, parsing_queue, pw,
                  result_queue, temp_folder, sink_files, sent, received >>

\* An archive thread that removes the folder of every message.
RemovesFolderAlways(archive_msg) == TRUE

\* `if archive_msg.is_temp_folder { let _ = fs::remove_dir_all(..); }`
RemovesFolder(archive_msg) == archive_msg.is_temp_folder

\* fs::remove_dir_all(archive_msg.folder)
remove_dir_all(folder) ==
  IF folder.parent = "temp"
  THEN [temp_folder EXCEPT ![folder.file_name] = NoDirectory]
  ELSE temp_folder

\* receiver.recv() returns Err (every reply clone is dropped): the summary is
\* built and the temporary folder removed.
AwFinish(w) ==
  /\ aw[w].pc = "wait"
  /\ reply_queue[w] = <<>>
  /\ ~ReplySendersAlive(w)
  /\ temp_folder' = IF RemovesFolder(aw[w].msg)
                    THEN remove_dir_all(aw[w].msg.folder)
                    ELSE temp_folder
  /\ removed' = IF RemovesFolder(aw[w].msg)
                THEN removed \cup {[folder |-> aw[w].msg.folder,
                                    is_temp_folder |-> aw[w].msg.is_temp_folder,
                                    in_error |-> aw[w].msg.in_error]}
                ELSE removed
  /\ aw' = [aw EXCEPT ![w].pc = "reply"]
  /\ UNCHANGED component_vars
  /\ UNCHANGED << input_is_decompressed, extractor_available, read_dir, driver,
                  decompression_queue, dw, archive_queue, parsing_queue, pw,
                  reply_queue, result_queue, sink_files, sent, received >>

\* archive_reply.send(result)
AwReply(w) ==
  /\ aw[w].pc = "reply"
  /\ result_queue' = SendTo(result_queue, ResultReceiverAlive,
                            Summary(aw[w].msg, aw[w].num_errors))
  /\ aw' = [aw EXCEPT ![w] = IdleArchiveThread]
  /\ UNCHANGED component_vars
  /\ UNCHANGED << input_is_decompressed, extractor_available, removed, read_dir, driver,
                  decompression_queue, dw, archive_queue, parsing_queue, pw,
                  reply_queue, temp_folder, sink_files, sent, received >>

\* archive_receiver.recv() returns Err.
AwExit(w) ==
  /\ aw[w].pc = "recv"
  /\ archive_queue = <<>>
  /\ ~ArchiveSendersAlive
  /\ aw' = [aw EXCEPT ![w].pc = "exited"]
  /\ UNCHANGED component_vars
  /\ UNCHANGED << input_is_decompressed, extractor_available, removed, read_dir, driver,
                  decompression_queue, dw, archive_queue, parsing_queue, pw,
                  reply_queue, result_queue, temp_folder, sink_files, sent,
                  received >>

\* -------------------------------------------------------------- parse stage
\* How a decoder call can proceed once the worker dispatched on the parser
\* type.  parse_csv returns an error before Output::new when the mapping or
\* the file cannot be read ("early_err"); every decoder otherwise builds its
\* sink fan-out first ("open").
DecoderStarts(config) == IF config = "csv" THEN {"open", "early_err"} ELSE {"open"}

\* How a decoder call ends after its fan-out is built: Ok(num_rows), an Err,
\* or a panic (EvtxParser::from_path(path).unwrap(), File::open(..).unwrap()
\* and the unwraps on the hive structure).
DecoderOutcomes(config, may_panic) ==
  {"Ok", "Err"} \cup (IF may_panic /\ config \in {"evtx", "hive"} THEN {"panic"} ELSE {})

\* Output::new -> OutputConfig::build -> FileWriter::new opens the file of
\* (archive_name, topic) with create(true).truncate(true): a missing file
\* is created, an existing one loses its content.
OpenSink(files, archive_name, topic) ==
  [files EXCEPT ![<<archive_name, topic>>] =
     IF @ = "absent" THEN "created" ELSE "truncated"]

\* parse_msg.reply.send(result)
Reply(queues, parse_msg, result) ==
  [queues EXCEPT ![parse_msg.reply] = Append(@, result)]

\* History: a task of archive thread w did not complete successfully.
NoteFailed(threads, parse_msg) ==
  [threads EXCEPT ![parse_msg.reply].failed = @ + 1]

\* receiver.recv() returned a ParseMsg and parse_file started.
PwRecv(p) ==
  /\ pw[p].pc = "recv"
  /\ parsing_queue # <<>>
  /\ parsing_queue' = Tail(parsing_queue)
  /\ LET parse_msg == Head(parsing_queue) IN
     \E start \in DecoderStarts(parse_msg.config) :
       IF start = "early_err"
       THEN /\ reply_queue' = Reply(reply_queue, parse_msg, "Err")
            /\ aw' = NoteFailed(aw, parse_msg)
            /\ UNCHANGED << pw, sink_files >>
       ELSE /\ sink_files' = OpenSink(sink_files, parse_msg.archive_name,
                                      TopicOf(parse_msg.config))
            /\ pw' = [pw EXCEPT ![p] = [pc |-> "parsing", msg |-> parse_msg]]
            /\ UNCHANGED << reply_queue, aw >>
  /\ UNCHANGED component_vars
  /\ UNCHANGED << input_is_decompressed, extractor_available, removed, read_dir, driver,
                  decompression_queue, dw, archive_queue, result_queue,
                  temp_folder, sent, received >>

\* The decoder call ends: the fan-out is dropped (flushed) and the result is
\* sent on the task's reply channel; a panic unwinds the thread instead.
PwDone(p, may_panic) ==
  /\ pw[p].pc = "parsing"
  /\ \E outcome \in DecoderOutcomes(pw[p].msg.config, may_panic) :
       IF outcome = "panic"
       THEN /\ pw' = [pw EXCEPT ![p] = [pc |-> "panicked", msg |-> NoParseMsg]]
            /\ aw' = NoteFailed(aw, pw[p].msg)
            /\ UNCHANGED reply_queue
       ELSE /\ reply_queue' = Reply(reply_queue, pw[p].msg, outcome)
            /\ aw' = IF outcome = "Err" THEN NoteFailed(aw, pw[p].msg) ELSE aw
            /\ pw' = [pw EXCEPT ![p] = IdleParsingThread]
  /\ UNCHANGED component_vars
  /\ UNCHANGED << input_is_decompressed, extractor_available, removed, read_dir, driver,
                  decompression_queue, dw, archive_queue, parsing_queue,
                  result_queue, temp_folder, sink_files, sent, received >>

\* receiver.recv() returns Err.
PwExit(p) ==
  /\ pw[p].pc = "recv"
  /\ parsing_queue = <<>>
  /\ ~ParsingSendersAlive
  /\ pw' = [pw EXCEPT ![p].pc = "exited"]
  /\ UNCHANGED component_vars
  /\ UNCHANGED << input_is_decompressed, extractor_available, removed, read_dir, driver,
                  decompression_queue, dw, archive_queue, aw, parsing_queue,
                  reply_queue, result_queue, temp_folder, sink_files, sent,
                  received >>

\* ----------------------------------------------------------- specifications
Driver == DriverEnqueue \/ DriverDrop \/ DriverRecv \/ DriverReturn

Dw(w) == DwRecv(w) \/ DwSend(w) \/ DwExit(w)

Aw(w) == AwRecv(w) \/ AwRecvResult(w) \/ AwFinish(w) \/ AwReply(w) \/ AwExit(w)

Pw(p, may_panic) == PwRecv(p) \/ PwDone(p, may_panic) \/ PwExit(p)

Next ==
  \/ DriverEnqueue
  \/ DriverDrop
  \/ DriverRecv
  \/ DriverReturn
  \/ \E w \in DecompressionThreads : DwRecv(w)
  \/ \E w \in DecompressionThreads : DwSend(w)
  \/ \E w \in DecompressionThreads : DwExit(w)
  \/ \E w \in ArchiveThreads : AwRecv(w)
  \/ \E w \in ArchiveThreads : AwRecvResult(w)
  \/ \E w \in ArchiveThreads : AwFinish(w)
  \/ \E w \in ArchiveThreads : AwReply(w)
  \/ \E w \in ArchiveThreads : AwExit(w)
  \/ \E p \in ParsingThreads : PwRecv(p)
  \/ \E p \in ParsingThreads : PwDone(p, TRUE)
  \/ \E p \in ParsingThreads : PwExit(p)

Spec == Init /\ [][Next]_vars

\* The pipeline when every decoder call returns (Ok or Err), each thread being
\* an operating-system thread that keeps running while it can take a step.
NextReturning ==
  \/ DriverEnqueue
  \/ DriverDrop
  \/ DriverRecv
  \/ DriverReturn
  \/ \E w \in DecompressionThreads : DwRecv(w)
  \/ \E w \in DecompressionThreads : DwSend(w)
  \/ \E w \in DecompressionThreads : DwExit(w)
  \/ \E w \in ArchiveThreads : AwRecv(w)
  \/ \E w \in ArchiveThreads : AwRecvResult(w)
  \/ \E w \in ArchiveThreads : AwFinish(w)
  \/ \E w \in ArchiveThreads : AwReply(w)
  \/ \E w \in ArchiveThreads : AwExit(w)
  \/ \E p \in ParsingThreads : PwRecv(p)
  \/ \E p \in ParsingThreads : PwDone(p, FALSE)
  \/ \E p \in ParsingThreads : PwExit(p)

Fairness ==
  /\ WF_vars(Driver)
  /\ \A w \in DecompressionThreads : WF_vars(Dw(w))
  /\ \A w \in ArchiveThreads : WF_vars(Aw(w))
  /\ \A p \in ParsingThreads : WF_vars(Pw(p, FALSE))

LiveSpec == Init /\ [][NextReturning]_vars /\ Fairness

\* ------------------------------------------------------------------- claims
AllThreadsGone ==
  /\ \A w \in DecompressionThreads : dw[w].pc \in Gone
  /\ \A w \in ArchiveThreads : aw[w].pc \in Gone
  /\ \A p \in ParsingThreads : pw[p].pc \in Gone

Terminated == driver = "returned" /\ AllThreadsGone /\ ~ResultSendersAlive

ExtractedFolders == {n \in TempNames : temp_folder[n].exists}

\* C2: at every moment at most num_archive_workers + 1 extracted temp
\* directories are on disk.
C2_AtMostArchiveThreadsPlusOne ==
  Cardinality(ExtractedFolders) <= NumArchiveThreads + 1

\* C3: when `parse` returns, the temp extraction root holds no
\* sub-directory of an archive of the run.
C3_TempRootEmptyAtReturn == driver = "returned" => ExtractedFolders = {}

\* C4: when `parse` returns the driver has received exactly one summary for
\* every path it sent, and none for an entry it skipped.
C4_OneSummaryPerSentPath ==
  driver = "returned" =>
    \A e \in DOMAIN received : received[e] = IF e \in sent THEN 1 ELSE 0

\* The filters that match a file, their number and the parser of the first.
Matching(file_name) ==
  {i \in 1..Len(parsers) : is_match(parsers[i].file_filter, file_name)}

NumMatches(file_name) == Cardinality(Matching(file_name))

FirstMatch(file_name) ==
  parsers[CHOOSE i \in Matching(file_name) :
            \A j \in Matching(file_name) : i <= j].parser

\* What the claim lets one file contribute: no task for m = 0, else one task
\* with the parser of the first matching filter, and m - 1 errors for m >= 2.
ExpectedTasksOf(file_name) ==
  IF NumMatches(file_name) = 0 THEN <<>>
  ELSE << [file |-> file_name, config |-> FirstMatch(file_name)] >>

ExpectedErrorsOf(file_name) ==
  IF NumMatches(file_name) >= 2 THEN NumMatches(file_name) - 1 ELSE 0

RECURSIVE ExpectedTasks(_)
ExpectedTasks(listing) ==
  IF listing = <<>> THEN <<>>
  ELSE ExpectedTasksOf(Head(listing)) \o ExpectedTasks(Tail(listing))

RECURSIVE ExpectedErrors(_)
ExpectedErrors(listing) ==
  IF listing = <<>> THEN 0
  ELSE ExpectedErrorsOf(Head(listing)) + ExpectedErrors(Tail(listing))

RECURSIVE ParseMsgsOf(_, _, _)
ParseMsgsOf(tasks, archive_msg, w) ==
  IF tasks = <<>> THEN <<>>
  ELSE << ParseMsgOf(Head(tasks), archive_msg, w) >>
         \o ParseMsgsOf(Tail(tasks), archive_msg, w)

\* Archive thread w lists the folder of a message in this step.
Lists(w) == aw[w].pc = "recv" /\ aw'[w].pc = "wait"

\* C5: listing a folder sends, for each file with m matching filters, no
\* task when m = 0 and otherwise exactly one task, carrying the parser of
\* the first matching filter, and leaves num_errors at the sum of the m - 1
\* of the files with m >= 2.  (The tasks reach the parse queue while a
\* parsing thread is alive.)
C5_OneTaskPerMatchedFile ==
  [][\A w \in ArchiveThreads :
       Lists(w) =>
         /\ aw'[w].tasks = ExpectedTasks(aw'[w].listing)
         /\ aw'[w].num_errors = ExpectedErrors(aw'[w].listing)
         /\ ParsingReceiversAlive =>
              parsing_queue' =
                parsing_queue \o ParseMsgsOf(ExpectedTasks(aw'[w].listing),
                                             aw'[w].msg, w)]_vars

\* A listing with an unmatched file and a file matched by three filters was
\* submitted: one task, two errors.
C5_Witness ==
  \E w \in ArchiveThreads :
    /\ aw[w].pc = "wait"
    /\ aw[w].listing = <<"f0", "f2">>
    /\ aw[w].tasks = << [file |-> "f2", config |-> "evtx"] >>
    /\ aw[w].num_errors = 2
    /\ \E i \in 1..Len(parsing_queue) : parsing_queue[i].file = "f2"

\* The entry of the input folder a message stems from (entry names are
\* unique over InputFolders).
EntryOf(src) == CHOOSE e \in AllEntries : e.name = src

\* Every ParseMsg queued or held by a parsing thread.
ParseMsgsInFlight ==
  {parsing_queue[i] : i \in 1..Len(parsing_queue)}
    \cup {pw[p].msg : p \in {q \in ParsingThreads : pw[q].pc = "parsing"}}

\* C6: an archive thread that receives a message with in_error = true sends a
\* summary with num_errors = 1 and returns to its receive loop without
\* submitting a parse task; no task of an archive whose extraction failed is
\* ever in the parse stage.
C6_InErrorSummaryOnly ==
  [][/\ (archive_queue # <<>> /\ archive_queue' = Tail(archive_queue)
           /\ Head(archive_queue).in_error) =>
          /\ result_queue' =
               Append(result_queue,
                      [folder |-> Head(archive_queue).folder.file_name,
                       num_errors |-> 1, src |-> Head(archive_queue).src])
          /\ parsing_queue' = parsing_queue
          /\ \A w \in ArchiveThreads : aw'[w].pc = "wait" => aw[w].pc = "wait"
     /\ \A m \in ParseMsgsInFlight' :
          EntryOf(m.src).extract \notin {"err", "err_dir"}]_vars

\* The summaries of both failed archives are queued for the driver.
C6_Witness ==
  /\ \E i \in 1..Len(result_queue) :
       result_queue[i] = [folder |-> <<"z">>, num_errors |-> 1, src |-> <<"z", "7z">>]
  /\ \E i \in 1..Len(result_queue) :
       result_queue[i] = [folder |-> <<"x">>, num_errors |-> 1, src |-> <<"x", "7z">>]

\* C7: when an archive thread emits the summary of a listed archive, every
\* submitted task has been answered exactly once and num_errors is the number
\* of additional filter matches plus the number of tasks that did not
\* complete successfully.
C7_AnsweredOnceAndCounted ==
  \A w \in ArchiveThreads :
    aw[w].pc = "reply" =>
      /\ aw[w].answered = Len(aw[w].tasks)
      /\ aw[w].num_errors = ExpectedErrors(aw[w].listing) + aw[w].failed

\* The ParseMsg a parsing thread is processing.
ParseMsgsBeingParsed ==
  {pw[p].msg : p \in {q \in ParsingThreads : pw[q].pc = "parsing"}}

\* Archive thread w removes its temporary folder in this step.
Deletes(w) ==
  aw[w].pc = "wait" /\ aw'[w].pc = "reply" /\ aw[w].msg.is_temp_folder

\* C8: when the temp directory of a listed archive is deleted, every task
\* submitted for the archive has sent its result and no parsing thread is
\* processing a file of that directory; the summary is emitted after the
\* deletion.
C8_ResultsThenDeleteThenSummary ==
  [][/\ \A w \in ArchiveThreads :
          Deletes(w) =>
            /\ aw[w].answered = Len(aw[w].tasks)
            /\ \A m \in ParseMsgsBeingParsed :
                 m.archive_name # aw[w].msg.folder.file_name
     /\ \A i \in 1..Len(result_queue') :
          (i > Len(result_queue) /\ EntryOf(result_queue'[i].src).extract = "ok") =>
            \E w \in ArchiveThreads :
               aw[w].pc = "reply" /\ aw[w].msg.src = result_queue'[i].src]_vars

\* Every ArchiveMsg held by a decompression thread, queued, or being handled
\* by an archive thread.
ArchiveMsgsInFlight ==
  {dw[w].msg : w \in {x \in DecompressionThreads : dw[x].pc = "send"}}
    \cup {archive_queue[i] : i \in 1..Len(archive_queue)}
    \cup {aw[w].msg : w \in {x \in ArchiveThreads : aw[x].pc \in {"wait", "reply"}}}

\* C9: two distinct input archives never use the same temp sub-directory, so
\* the folder an archive thread deletes is not the folder of another archive
\* that is extracted or being parsed.
C9_DisjointTempFolders ==
  [][\A w \in ArchiveThreads :
       Deletes(w) =>
         \A m \in ArchiveMsgsInFlight :
           m.src # aw[w].msg.src => m.folder # aw[w].msg.folder]_vars

\* The sink files a parsing thread has open.
OpenSinks(p) ==
  IF pw[p].pc = "parsing"
  THEN {<<pw[p].msg.archive_name, TopicOf(pw[p].msg.config)>>}
  ELSE {}

\* C10: the file of a given (archive, topic) is created at most once, never
\* truncated afterwards, and never has two writers at once.
C10_OneSinkPerArchiveTopic ==
  /\ \A k \in DOMAIN sink_files : sink_files[k] # "truncated"
  /\ \A p, q \in ParsingThreads : p # q => OpenSinks(p) \cap OpenSinks(q) = {}

\* The entries of the input folder that `parse` has still to iterate, and a
\* step of its loop.
Iterates == read_dir' # read_dir

\* C24: the driver iterates every entry of the input folder; an entry is sent
\* to Stage 1 if and only if it is a directory and input_is_decompressed is
\* true or it is a file and input_is_decompressed is false; no entry is sent
\* twice.
C24_DriverSendsByKind ==
  /\ [](driver # "enqueue" => read_dir = <<>>)
  /\ [][Iterates =>
          LET path == Head(read_dir) IN
            /\ read_dir' = Tail(read_dir)
            /\ path.name \notin sent
            /\ IF path.is_dir = input_is_decompressed
               THEN /\ sent' = sent \cup {path.name}
                    /\ decompression_queue' = Append(decompression_queue, path)
               ELSE /\ sent' = sent
                    /\ decompression_queue' = decompression_queue]_vars

\* A decompression thread takes a path off the Stage-1 queue.
Takes(w) ==
  /\ dw[w].pc = "recv"
  /\ decompression_queue # <<>>
  /\ decompression_queue' = Tail(decompression_queue)
  /\ dw'[w] # dw[w]

\* A decompression thread is done with the message it built.
Forwards(w) == dw[w].pc = "send" /\ dw'[w].pc = "recv"

\* C25: a decompression thread that takes a directory builds the message
\* (is_temp_folder = false, in_error = false, zero duration) without running
\* the extractor; one that takes a file runs the extractor and builds the
\* message (is_temp_folder = true, folder = <temp_root>/<file_stem>, in_error
\* iff the exit status is non-zero); the message built is forwarded to the
\* archive queue, once.
C25_OneMessagePerInput ==
  [][\A w \in DecompressionThreads :
       /\ Takes(w) =>
            LET input_path == Head(decompression_queue) IN
              /\ dw'[w].pc = "send"
              /\ dw'[w].msg.src = input_path.name
              /\ IF input_path.is_dir
                 THEN /\ dw'[w].msg.folder = InputPath(input_path.name)
                      /\ ~dw'[w].msg.is_temp_folder
                      /\ ~dw'[w].msg.in_error
                      /\ dw'[w].msg.decompress_duration = "zero"
                      /\ temp_folder' = temp_folder
                 ELSE /\ dw'[w].msg.folder = TempPath(file_stem(input_path.name))
                      /\ dw'[w].msg.is_temp_folder
                      /\ dw'[w].msg.in_error = ExitFailure(input_path.extract)
                      /\ temp_folder' = Extract(temp_folder, input_path)
       /\ Forwards(w) => archive_queue' = Append(archive_queue, dw[w].msg)]_vars

\* C26: no extractor failure ends a decompression thread: a thread that takes
\* a file whose extraction fails (non-zero exit, or the extractor cannot be
\* started) builds the message of that archive with in_error = true and goes
\* on to forward it, and no decompression thread ever dies while inputs may
\* still come.
C26_ExtractionFailureNotFatal ==
  /\ [](\A w \in DecompressionThreads : dw[w].pc # "panicked")
  /\ [][\A w \in DecompressionThreads :
          (/\ Takes(w)
           /\ ~Head(decompression_queue).is_dir
           /\ \/ ~extractor_available
              \/ ExitFailure(Head(decompression_queue).extract)) =>
            /\ dw'[w].pc = "send"
            /\ dw'[w].msg.in_error
            /\ dw'[w].msg.src = Head(decompression_queue).name]_vars

\* An archive thread ends the archive of its message.
Finishes(w) == aw[w].pc = "wait" /\ aw'[w].pc = "reply"

\* C37: the folder of a message with is_temp_folder = false is never
\* removed, whatever the results of its files; an archive thread removes a
\* folder only when it ends an archive whose message has is_temp_folder =
\* true and in_error = false, and nothing else removes a directory.
C37_OnlyTempFoldersRemoved ==
  /\ [](\A r \in removed :
          r.is_temp_folder /\ ~r.in_error /\ r.folder.parent = "temp")
  /\ [][\A w \in ArchiveThreads :
          (Finishes(w) /\ ~aw[w].msg.is_temp_folder) =>
            removed' = removed /\ temp_folder' = temp_folder]_vars
  /\ [][\A n \in TempNames :
          (temp_folder[n].exists /\ ~temp_folder'[n].exists) =>
            \E w \in ArchiveThreads :
              /\ Finishes(w)
              /\ aw[w].msg.folder = TempPath(n)
              /\ aw[w].msg.is_temp_folder
              /\ ~aw[w].msg.in_error]_vars

\* An archive thread has ended the archive of a directory of the input
\* folder, one of whose files failed, and no folder was removed.
C37_Witness ==
  /\ input_is_decompressed
  /\ removed = {}
  /\ \E w \in ArchiveThreads :
       /\ aw[w].pc = "reply"
       /\ ~aw[w].msg.is_temp_folder
       /\ aw[w].msg.folder.parent = "input"
       /\ aw[w].failed >= 1

\* =================================================== the sink fan-out (Output)
\* The pipeline at rest, for the specifications that study one component.
PipelineAtRest ==
  /\ input_is_decompressed = FALSE
  /\ extractor_available = TRUE
  /\ read_dir = <<>>
  /\ driver = "enqueue"
  /\ decompression_queue = <<>>
  /\ dw = [w \in DecompressionThreads |-> IdleDecompressionThread]
  /\ archive_queue = <<>>
  /\ aw = [w \in ArchiveThreads |-> IdleArchiveThread]
  /\ parsing_queue = <<>>
  /\ pw = [w \in ParsingThreads |-> IdleParsingThread]
  /\ reply_queue = [w \in ArchiveThreads |-> <<>>]
  /\ result_queue = <<>>
  /\ temp_folder = [n \in TempNames |-> NoDirectory]
  /\ sink_files = [k \in ArchiveNames \X Topics |-> "absent"]
  /\ sent = {}
  /\ received = [e \in {x.name : x \in AllEntries} |-> 0]
  /\ removed = {}

\* The sinks of a fan-out (configuration.output) and the rows of a file.
MaxSinks == 3
MaxRows == 3

\* A sink (Box<dyn OutputWriter>) as the fan-out sees it: the rows it
\* accepted, and how often its write and flush were called and its flush
\* failed.
NewSink == [rows |-> <<>>, writes |-> 0, flushes |-> 0, flush_errors |-> 0]

\* Output::new: one sink per output configuration, num_rows 0.
Output_new(n) ==
  [list |-> [i \in 1..n |-> NewSink], num_rows |-> 0, state |-> "live",
   flushed |-> "none"]

\* A fan-out whose `for writer in &mut self.list` does not stop at a failing
\* sink.
RECURSIVE write_all(_, _, _, _)
write_all(list, i, data, failing) ==
  IF i > Len(list) THEN [list |-> list,
                         result |-> IF failing = {} THEN "Ok" ELSE "Err"]
  ELSE IF i \in failing
       THEN write_all([list EXCEPT ![i].writes = @ + 1], i + 1, data, failing)
       ELSE write_all([list EXCEPT ![i].writes = @ + 1,
                                   ![i].rows = Append(@, data)],
                      i + 1, data, failing)

\* A fan-out that passes over a failing sink and returns Ok (no `?`).
RECURSIVE write_each_unchecked(_, _, _, _)
write_each_unchecked(list, i, data, failing) ==
  IF i > Len(list) THEN [list |-> list, result |-> "Ok"]
  ELSE IF i \in failing
       THEN write_each_unchecked([list EXCEPT ![i].writes = @ + 1], i + 1, data, failing)
       ELSE write_each_unchecked([list EXCEPT ![i].writes = @ + 1,
                                              ![i].rows = Append(@, data)],
                                 i + 1, data, failing)

\* `for writer in &mut self.list { writer.write(data.clone())?; }` from sink
\* i on; `failing` are the sinks whose write returns Err on this row.
RECURSIVE write_each(_, _, _, _)
write_each(list, i, data, failing) ==
  IF i > Len(list) THEN [list |-> list, result |-> "Ok"]
  ELSE IF i \in failing
       THEN [list |-> [list EXCEPT ![i].writes = @ + 1], result |-> "Err"]
       ELSE write_each([list EXCEPT ![i].writes = @ + 1,
                                    ![i].rows = Append(@, data)],
                       i + 1, data, failing)

\* A write that counts the row before it is offered to the sinks.
Output_write_count_first(out, data, failing) ==
  LET r == write_each(out.list, 1, data, failing)
  IN [output |-> [out EXCEPT !.list = r.list, !.num_rows = @ + 1],
      result |-> r.result]

\* Output::write: a single sink is written without the clone, several in
\* list order; num_rows is incremented after every sink accepted the row.
Output_write(out, data, failing) ==
  LET r == IF Len(out.list) = 1
           THEN IF 1 \in failing
                THEN [list |-> [out.list EXCEPT ![1].writes = @ + 1],
                      result |-> "Err"]
                ELSE [list |-> [out.list EXCEPT ![1].writes = @ + 1,
                                                ![1].rows = Append(@, data)],
                      result |-> "Ok"]
           ELSE write_each(out.list, 1, data, failing)
  IN [output |-> [out EXCEPT !.list = r.list,
                             !.num_rows = IF r.result = "Ok" THEN @ + 1 ELSE @],
      result |-> r.result]

\* A flush that returns at the first failing sink.
RECURSIVE flush_until_error(_, _, _)
flush_until_error(list, i, failing) ==
  IF i > Len(list) THEN [list |-> list, result |-> "Ok"]
  ELSE IF i \in failing
       THEN [list |-> [list EXCEPT ![i].flushes = @ + 1,
                                   ![i].flush_errors = @ + 1],
             result |-> "OutputFlush"]
       ELSE flush_until_error([list EXCEPT ![i].flushes = @ + 1], i + 1, failing)

\* Output::flush: every sink is flushed, in_error remembers a failure.
RECURSIVE Output_flush(_, _, _)
Output_flush(list, i, failing) ==
  IF i > Len(list)
  THEN [list |-> list, result |-> IF failing = {} THEN "Ok" ELSE "OutputFlush"]
  ELSE Output_flush([list EXCEPT ![i].flushes = @ + 1,
                                 ![i].flush_errors = IF i \in failing THEN @ + 1 ELSE @],
                    i + 1, failing)

\* A drop that does not flush.
Output_drop_no_flush(out, failing) ==
  [out EXCEPT !.state = "dropped", !.flushed = "Ok"]

\* Drop for Output: flush, the error being logged only.
Output_drop(out, failing) ==
  LET r == Output_flush(out.list, 1, failing)
  IN [out EXCEPT !.list = r.list, !.state = "dropped", !.flushed = r.result]

\* A decoder loop that goes on after a failed write.
AfterWriteIgnoringError(result) == "running"

\* `output.write(tuple)?` in the loop of a decoder: an Err ends the call.
AfterWrite(result) == IF result = "Err" THEN "Err" ELSE "running"

\* How a decoder call ends other than by a failed write: the input is
\* exhausted, a record cannot be decoded, or an unwrap() panics.
DecoderEnds == {"Ok", "Err", "panic"}

\* A decoder call: the rows it produced, how it stands, the local num_rows
\* of a loop that counts its rows itself (evtx.rs parse) and the value the
\* call returned.  History: the result of every write call.
NewDecoder ==
  [produced |-> <<>>, result |-> "running", num_rows |-> 0, returned |-> None,
   results |-> <<>>]

OutputInit ==
  /\ PipelineAtRest
  /\ DecodersAtRest
  /\ KafkaAtRest
  /\ ClickhouseAtRest
  /\ TupleAtRest
  /\ \E n \in 1..MaxSinks : output = Output_new(n)
  /\ decoder = NewDecoder

\* One iteration of a decoder loop: the next row is produced and written to
\* the fan-out.
DecoderWrite ==
  /\ decoder.result = "running"
  /\ Len(decoder.produced) < MaxRows
  /\ \E failing \in SUBSET (1..Len(output.list)) :
       LET data == Len(decoder.produced) + 1
           w == Output_write(output, data, failing) IN
       /\ output' = w.output
       /\ decoder' = [decoder EXCEPT
                        !.produced = Append(@, data),
                        !.result = AfterWrite(w.result),
                        !.num_rows = IF w.result = "Ok" THEN @ + 1 ELSE @,
                        !.results = Append(@, w.result)]
  /\ UNCHANGED outside_output

\* What a decoder returns at the end of its input: parse_evtx its own
\* num_rows, parse_csv and parse_hive output.num_rows().
ReturnedRows(style, dec, out) == IF style = "evtx" THEN dec.num_rows ELSE out.num_rows

\* The decoder call ends without a failed write.
DecoderReturn ==
  /\ decoder.result = "running"
  /\ \E end \in DecoderEnds, style \in {"evtx", "csv"} :
       decoder' = [decoder EXCEPT
                     !.result = end,
                     !.returned = IF end = "Ok"
                                  THEN Some(ReturnedRows(style, decoder, output))
                                  ELSE None]
  /\ UNCHANGED << output, outside_output >>

\* The decoder function is left (return or unwinding): `output` goes out of
\* scope.
OutputDrop ==
  /\ decoder.result # "running"
  /\ output.state = "live"
  /\ \E failing \in SUBSET (1..Len(output.list)) :
       output' = Output_drop(output, failing)
  /\ UNCHANGED << decoder, outside_output >>

OutputNext == DecoderWrite \/ DecoderReturn \/ OutputDrop

OutputSpec == OutputInit /\ [][OutputNext]_vars

\* ------------------------------------------------------ claims on the fan-out
\* A step that writes one row to the fan-out, and the row written.
WriteStep == Len(decoder'.produced) = Len(decoder.produced) + 1
RowWritten == Len(decoder'.produced)

\* What the step did to sink i.
Offered(i) == output'.list[i].writes = output.list[i].writes + 1
Accepted(i) ==
  Offered(i) /\ output'.list[i].rows = Append(output.list[i].rows, RowWritten)
Refused(i) == Offered(i) /\ output'.list[i].rows = output.list[i].rows
Untouched(i) == output'.list[i] = output.list[i]

\* C11: a write on a fan-out of N >= 2 sinks either reaches every sink and
\* increments num_rows, or stops at the first failing sink k: the error is
\* returned, the sinks before k keep the row, the sinks after k are not
\* offered it and num_rows is not incremented.
C11_WriteStopsAtFirstFailure ==
  [][(WriteStep /\ Len(output.list) >= 2) =>
       \/ /\ \A i \in 1..Len(output.list) : Accepted(i)
          /\ output'.num_rows = output.num_rows + 1
          /\ decoder'.result = "running"
       \/ \E k \in 1..Len(output.list) :
            /\ Refused(k)
            /\ \A i \in 1..(k - 1) : Accepted(i)
            /\ \A i \in (k + 1)..Len(output.list) : Untouched(i)
            /\ output'.num_rows = output.num_rows
            /\ decoder'.result = "Err"]_vars

\* The second of three sinks refused the first row.
C11_Witness ==
  /\ Len(output.list) = 3
  /\ output.state = "live"
  /\ output.list[1].rows = <<1>>
  /\ output.list[2].writes = 1 /\ output.list[2].rows = <<>>
  /\ output.list[3].writes = 0
  /\ output.num_rows = 0
  /\ decoder.result = "Err"

\* A step that flushes the fan-out.
FlushStep == output.state = "live" /\ output'.state = "dropped"

\* C12: a flush calls flush on every sink exactly once, also after a sink
\* whose flush failed, and returns the one OutputFlush error exactly when
\* the flush of at least one sink failed.
C12_FlushReachesEverySink ==
  [][FlushStep =>
       /\ \A i \in 1..Len(output.list) :
            output'.list[i].flushes = output.list[i].flushes + 1
       /\ output'.flushed \in {"Ok", "OutputFlush"}
       /\ output'.flushed = "OutputFlush" <=>
            \E i \in 1..Len(output.list) :
              output'.list[i].flush_errors > output.list[i].flush_errors]_vars

\* The flush of the first of three sinks failed, the third was flushed.
C12_Witness ==
  /\ Len(output.list) = 3
  /\ output.list[1].flush_errors = 1
  /\ output.list[2].flush_errors = 0
  /\ output.list[3].flushes = 1 /\ output.list[3].flush_errors = 0
  /\ output.flushed = "OutputFlush"

\* C13: a dropped fan-out has had flush called on every sink, whatever ended
\* the decoder call, and the drop leaves the result of the decoder call as it
\* was (a flush error is not propagated).
C13_DropFlushesEverySink ==
  /\ [](output.state = "dropped" =>
          \A i \in 1..Len(output.list) : output.list[i].flushes >= 1)
  /\ [][FlushStep => decoder' = decoder]_vars

\* Dropped after the first sink refused a row: the other sink was flushed,
\* and the flush error is not the result of the call.
C13_Witness ==
  /\ output.state = "dropped"
  /\ Len(output.list) = 2
  /\ output.list[1].writes = 1 /\ output.list[1].rows = <<>>
  /\ output.list[2].writes = 0 /\ output.list[2].flushes = 1
  /\ output.flushed = "OutputFlush"
  /\ decoder.result = "Err"

IsPrefix(a, b) == Len(a) <= Len(b) /\ SubSeq(b, 1, Len(a)) = a

\* C14: the rows a sink received are a prefix, in order, of the rows the
\* decoder produced.
C14_SinkRowsArePrefix ==
  \A i \in 1..Len(output.list) : IsPrefix(output.list[i].rows, decoder.produced)

\* Two rows produced: the first sink got both, the second only the first.
C14_Witness ==
  /\ Len(output.list) >= 2
  /\ decoder.produced = <<1, 2>>
  /\ output.list[1].rows = <<1, 2>>
  /\ output.list[2].rows = <<1>>

OkWrites(dec) == Cardinality({k \in 1..Len(dec.results) : dec.results[k] = "Ok"})

\* C38: num_rows of a fan-out is the number of its write calls that returned
\* Ok, every sink has received at least num_rows rows, and the row count a
\* decoder returns at the end of a file is num_rows of its fan-out.
C38_NumRowsCountsOkWrites ==
  /\ output.num_rows = OkWrites(decoder)
  /\ \A i \in 1..Len(output.list) : Len(output.list[i].rows) >= output.num_rows
  /\ decoder.result = "Ok" => decoder.returned = Some(output.num_rows)

\* The call returned Ok(2) at the end of a file of two rows, both taken by
\* the three sinks.
C38_Witness ==
  /\ Len(output.list) = 3
  /\ decoder.result = "Ok"
  /\ decoder.results = <<"Ok", "Ok">>
  /\ decoder.returned = Some(2)
  /\ output.num_rows = 2
  /\ output.state = "dropped"
  /\ \A i \in 1..3 : output.list[i].rows = <<1, 2>>

KafkaQueueCapacity == 2
MaxPolls == 2
MaxWrites == 4

\* KafkaWriter::new: the flag of the delivery callback is false, nothing is
\* queued in the producer.
KafkaWriter_new ==
  [has_error |-> FALSE, queue |-> <<>>, submitted |-> <<>>, results |-> <<>>,
   writer |-> [pc |-> "idle", data |-> 0, retries |-> 0]]

KafkaIdle == [pc |-> "idle", data |-> 0, retries |-> 0]

\* A delivery callback that stores the outcome of the last acknowledgment.
delivery_last(k, ok) == [k EXCEPT !.has_error = ~ok, !.queue = Tail(@)]

\* InputDeliveryCallback::delivery for the oldest queued record: a failed
\* acknowledgment stores true in has_error.
delivery(k, ok) ==
  [k EXCEPT !.has_error = IF ~ok /\ ~k.has_error THEN TRUE ELSE @,
            !.queue = Tail(@)]

\* The return of a write call, noted with its record.
KafkaReturn(k, data, result) ==
  [k EXCEPT !.results = Append(@, [data |-> data, result |-> result,
                                   polls |-> k.writer.retries]),
            !.writer = KafkaIdle]

\* KafkaWriter::write up to the loop: Err(KafkaProducer) when has_error is
\* set, else the record is built and submitted.
KafkaWriter_write(k, data) ==
  IF k.has_error THEN KafkaReturn(k, data, "KafkaProducer")
  ELSE [k EXCEPT !.writer = [pc |-> "send", data |-> data, retries |-> 0]]

\* What producer.send can answer.
SendOutcomes(k) ==
  IF Len(k.queue) >= KafkaQueueCapacity
  THEN {"Error"} \cup (IF k.writer.retries < MaxPolls THEN {"QueueFull"} ELSE {})
  ELSE {"Ok", "Error"}

\* A loop that gives the record up when the queue is full.
producer_send_or_drop(k, outcome) ==
  CASE outcome = "Ok" ->
         KafkaReturn([k EXCEPT !.queue = Append(@, k.writer.data),
                               !.submitted = Append(@, k.writer.data)],
                     k.writer.data, "Ok")
    [] outcome = "QueueFull" -> KafkaReturn(k, k.writer.data, "Ok")
    [] OTHER -> KafkaReturn(k, k.writer.data, "Kafka")

\* One iteration of the loop of KafkaWriter::write: QueueFull polls 10 ms and
\* continues with the same record, any other error is returned, Ok breaks.
producer_send(k, outcome) ==
  CASE outcome = "Ok" ->
         KafkaReturn([k EXCEPT !.queue = Append(@, k.writer.data),
                               !.submitted = Append(@, k.writer.data)],
                     k.writer.data, "Ok")
    [] outcome = "QueueFull" -> [k EXCEPT !.writer.retries = @ + 1]
    [] OTHER -> KafkaReturn(k, k.writer.data, "Kafka")

KafkaInit ==
  /\ PipelineAtRest
  /\ DecodersAtRest
  /\ OutputAtRest
  /\ ClickhouseAtRest
  /\ TupleAtRest
  /\ kafka = KafkaWriter_new

\* write(data) is called with the next row of the file.
KafkaWrite ==
  /\ kafka.writer.pc = "idle"
  /\ Len(kafka.results) < MaxWrites
  /\ kafka' = KafkaWriter_write(kafka, Len(kafka.results) + 1)
  /\ UNCHANGED outside_kafka

\* self.producer.send(record) and the match on its answer.
KafkaSend ==
  /\ kafka.writer.pc = "send"
  /\ \E outcome \in SendOutcomes(kafka) : kafka' = producer_send(kafka, outcome)
  /\ UNCHANGED outside_kafka

\* The producer's thread gets the acknowledgment of the oldest record and
\* runs the delivery callback.
KafkaDeliver ==
  /\ kafka.queue # <<>>
  /\ \E ok \in BOOLEAN : kafka' = delivery(kafka, ok)
  /\ UNCHANGED outside_kafka

KafkaNext == KafkaWrite \/ KafkaSend \/ KafkaDeliver

KafkaSpec == KafkaInit /\ [][KafkaNext]_vars

\* ---------------------------------------------------- claims on the bus sink
\* A step in which a write call starts.
KafkaWriteStarts ==
  /\ kafka.writer.pc = "idle"
  /\ kafka'.writer.pc = "send" \/ Len(kafka'.results) > Len(kafka.results)

\* C15: the delivery-error flag is never cleared once set, and a write that
\* starts while it is set returns an error without submitting a record.
C15_ErrorFlagIsSticky ==
  [][/\ kafka.has_error => kafka'.has_error
     /\ (KafkaWriteStarts /\ kafka.has_error) =>
          /\ Len(kafka'.results) = Len(kafka.results) + 1
          /\ kafka'.results[Len(kafka'.results)].result = "KafkaProducer"
          /\ kafka'.writer.pc = "idle"
          /\ kafka'.queue = kafka.queue
          /\ kafka'.submitted = kafka.submitted]_vars

\* After a failed acknowledgment a write was refused and later records were
\* acknowledged with success.
C15_Witness ==
  /\ kafka.has_error
  /\ kafka.queue = <<>>
  /\ Len(kafka.submitted) = 2
  /\ \E i \in 1..Len(kafka.results) :
       /\ kafka.results[i].result = "KafkaProducer"
       /\ \A j \in 1..Len(kafka.submitted) : kafka.submitted[j] # kafka.results[i].data

\* How often a record was accepted by the producer.
TimesSubmitted(data) ==
  Cardinality({j \in 1..Len(kafka.submitted) : kafka.submitted[j] = data})

\* C16: a write that returned Ok has enqueued its record exactly once, a write
\* that returned an error has enqueued nothing, a write still in its loop has
\* not returned; a queue-full answer keeps the write in the loop with the same
\* record, and any other submit error is returned at once.
C16_SubmittedExactlyOnce ==
  /\ [](/\ \A i \in 1..Len(kafka.results) :
             TimesSubmitted(kafka.results[i].data) =
               IF kafka.results[i].result = "Ok" THEN 1 ELSE 0
        /\ kafka.writer.pc = "send" =>
             /\ TimesSubmitted(kafka.writer.data) = 0
             /\ \A i \in 1..Len(kafka.results) :
                  kafka.results[i].data # kafka.writer.data)
  /\ [][(kafka.writer.pc = "send" /\ kafka'.writer.retries = kafka.writer.retries + 1) =>
          /\ Len(kafka.queue) >= KafkaQueueCapacity
          /\ kafka'.writer.pc = "send"
          /\ kafka'.writer.data = kafka.writer.data
          /\ kafka'.submitted = kafka.submitted
          /\ kafka'.results = kafka.results]_vars

\* A write returned Ok after it polled on a full queue, its record enqueued
\* once; another returned a submit error without a poll.
C16_Witness ==
  /\ \E i \in 1..Len(kafka.results) :
       /\ kafka.results[i].result = "Ok"
       /\ kafka.results[i].polls >= 1
       /\ TimesSubmitted(kafka.results[i].data) = 1
  /\ \E i \in 1..Len(kafka.results) :
       /\ kafka.results[i].result = "Kafka"
       /\ kafka.results[i].polls = 0

\* ======================================== the store sink (clickhouse_writer.rs)
\* The capacity of mpsc::channel::<Message>(max_rows), 10_000 in the source,
\* scaled down so that the queue fills.
SubmissionQueueCapacity == 2

RowMsg(data) == [kind |-> "Row", data |-> data]
FlushMsg == [kind |-> "Flush", data |-> 0]

\* ClickhouseWriter::new: the flag is false, the writer task is spawned and
\* waits in receiver.recv().
ClickhouseWriter_new ==
  [has_error |-> FALSE, queue |-> <<>>, reply |-> "none",
   task |-> [pc |-> "recv", flush |-> FALSE, insert_error |-> FALSE, end |-> "none"],
   writer |-> [pc |-> "idle", data |-> 0],
   writes |-> 0, results |-> <<>>, enqueued |-> <<>>,
   offered |-> <<>>, inserted |-> <<>>]

\* The Receiver lives in the writer task's future until the task is over.
ReceiverAlive(c) == c.task.pc # "done"

\* A send that never waits for room.
CanSendAlways(c) == c.task.pc \in {"recv", "ending", "ended", "done"}

\* blocking_send returns when the channel is closed or has room.
CanSend(c) == ~ReceiverAlive(c) \/ Len(c.queue) < SubmissionQueueCapacity

\* The return of write or flush, noted with its row.
ClickhouseReturn(c, op, data, result, pc) ==
  [c EXCEPT !.results = Append(@, [op |-> op, data |-> data, result |-> result]),
            !.writer = [pc |-> pc, data |-> 0]]

\* A write that does not look at the flag.
ClickhouseWriter_write_blind(c, data) ==
  [c EXCEPT !.writes = @ + 1, !.writer = [pc |-> "sending", data |-> data]]

\* ClickhouseWriter::write up to blocking_send: an error when has_error is
\* set, else the row is built and sent.
ClickhouseWriter_write(c, data) ==
  IF c.has_error
  THEN ClickhouseReturn([c EXCEPT !.writes = @ + 1], "write", data, "Err", "idle")
  ELSE [c EXCEPT !.writes = @ + 1, !.writer = [pc |-> "sending", data |-> data]]

\* self.sender.blocking_send(Message::Row(row)) once it returns.
send_row(c) ==
  IF ReceiverAlive(c)
  THEN ClickhouseReturn([c EXCEPT !.queue = Append(@, RowMsg(c.writer.data)),
                                  !.enqueued = Append(@, c.writer.data)],
                        "write", c.writer.data, "Ok", "idle")
  ELSE ClickhouseReturn(c, "write", c.writer.data, "Err", "idle")

\* self.sender.blocking_send(Message::Flush(tx)) once it returns.
send_flush(c) ==
  IF ReceiverAlive(c)
  THEN [c EXCEPT !.queue = Append(@, FlushMsg), !.writer.pc = "flush_wait"]
  ELSE ClickhouseReturn(c, "flush", 0, "Err", "closed")

\* A writer task that logs an insert error and goes on with the next message.
insert_row_continue(c, ok) ==
  IF ok THEN [c EXCEPT !.queue = Tail(@),
                       !.offered = Append(@, Head(c.queue).data),
                       !.inserted = Append(@, Head(c.queue).data)]
  ELSE [c EXCEPT !.queue = Tail(@),
                 !.offered = Append(@, Head(c.queue).data)]

\* The writer task on Message::Row: Self::write(row, &mut inserter).await;
\* an error stores true in the flag and breaks.  History: the rows that
\* Self::write was called on, and those for which it returned Ok.
insert_row(c, ok) ==
  IF ok THEN [c EXCEPT !.queue = Tail(@),
                       !.offered = Append(@, Head(c.queue).data),
                       !.inserted = Append(@, Head(c.queue).data)]
  ELSE [c EXCEPT !.queue = Tail(@), !.has_error = TRUE,
                 !.offered = Append(@, Head(c.queue).data),
                 !.task = [pc |-> "ending", flush |-> FALSE, insert_error |-> TRUE,
                           end |-> "none"]]

\* The writer task on Message::Flush(reply): flush = Some(reply); break.
take_flush(c) ==
  [c EXCEPT !.queue = Tail(@), !.task.pc = "ending", !.task.flush = TRUE]

\* `let end = inserter.end().await;`: the last batch is committed, or not.
inserter_end(c, ok) ==
  [c EXCEPT !.task.pc = "ended", !.task.end = IF ok THEN "Ok" ELSE "Err"]

\* The reply to the Flush that was taken; the task is over, its Receiver is
\* dropped with the messages still queued (and the reply sender of a queued
\* Flush).
end_task(c) ==
  [c EXCEPT !.task.pc = "done",
            !.queue = <<>>,
            !.reply = IF c.task.flush THEN c.task.end
                      ELSE IF \E i \in 1..Len(c.queue) : c.queue[i].kind = "Flush"
                           THEN "dropped" ELSE @]

ClickhouseInit ==
  /\ PipelineAtRest
  /\ DecodersAtRest
  /\ OutputAtRest
  /\ KafkaAtRest
  /\ TupleAtRest
  /\ clickhouse = ClickhouseWriter_new

\* write(data) is called with the next row.
ClickhouseWrite ==
  /\ clickhouse.writer.pc = "idle"
  /\ clickhouse.writes < MaxWrites
  /\ clickhouse' = ClickhouseWriter_write(clickhouse, clickhouse.writes + 1)
  /\ UNCHANGED outside_clickhouse

\* blocking_send of a row returns.
ClickhouseSendRow ==
  /\ clickhouse.writer.pc = "sending"
  /\ CanSend(clickhouse)
  /\ clickhouse' = send_row(clickhouse)
  /\ UNCHANGED outside_clickhouse

\* flush() is called (by the drop of the fan-out).
ClickhouseFlush ==
  /\ clickhouse.writer.pc = "idle"
  /\ clickhouse' = [clickhouse EXCEPT !.writer.pc = "flush_sending"]
  /\ UNCHANGED outside_clickhouse

\* blocking_send of the Flush message returns.
ClickhouseSendFlush ==
  /\ clickhouse.writer.pc = "flush_sending"
  /\ CanSend(clickhouse)
  /\ clickhouse' = send_flush(clickhouse)
  /\ UNCHANGED outside_clickhouse

\* rx.blocking_recv() returns the reply, or an error when the reply sender
\* was dropped.
ClickhouseFlushRecv ==
  /\ clickhouse.writer.pc = "flush_wait"
  /\ clickhouse.reply # "none"
  /\ clickhouse' = ClickhouseReturn(clickhouse, "flush", 0,
                                    IF clickhouse.reply = "Ok" THEN "Ok" ELSE "Err",
                                    "closed")
  /\ UNCHANGED outside_clickhouse

\* The writer task receives a message.
ClickhouseTaskRecv ==
  /\ clickhouse.task.pc = "recv"
  /\ clickhouse.queue # <<>>
  /\ IF Head(clickhouse.queue).kind = "Flush"
     THEN clickhouse' = take_flush(clickhouse)
     ELSE \E ok \in BOOLEAN : clickhouse' = insert_row(clickhouse, ok)
  /\ UNCHANGED outside_clickhouse

\* The writer task ends its inserter after the loop.
ClickhouseInserterEnd ==
  /\ clickhouse.task.pc = "ending"
  /\ \E ok \in BOOLEAN : clickhouse' = inserter_end(clickhouse, ok)
  /\ UNCHANGED outside_clickhouse

\* The writer task answers the Flush, if it took one, and is over.
ClickhouseTaskEnd ==
  /\ clickhouse.task.pc = "ended"
  /\ clickhouse' = end_task(clickhouse)
  /\ UNCHANGED outside_clickhouse

ClickhouseCaller ==
  ClickhouseSendRow \/ ClickhouseSendFlush \/ ClickhouseFlushRecv

ClickhouseTask == ClickhouseTaskRecv \/ ClickhouseInserterEnd \/ ClickhouseTaskEnd

ClickhouseNext ==
  \/ ClickhouseWrite
  \/ ClickhouseSendRow
  \/ ClickhouseFlush
  \/ ClickhouseSendFlush
  \/ ClickhouseFlushRecv
  \/ ClickhouseTaskRecv
  \/ ClickhouseInserterEnd
  \/ ClickhouseTaskEnd

ClickhouseSpec == ClickhouseInit /\ [][ClickhouseNext]_vars

\* The calling thread returns from a blocking call that can return, and the
\* runtime keeps running the writer task (every insert call returning).
ClickhouseLiveSpec ==
  /\ ClickhouseInit
  /\ [][ClickhouseNext]_vars
  /\ WF_vars(ClickhouseCaller)
  /\ WF_vars(ClickhouseTask)

\* -------------------------------------------------- claims on the store sink
ClickhouseWriteStarts ==
  clickhouse.writer.pc = "idle" /\ clickhouse'.writes = clickhouse.writes + 1

LastResult(c) == c.results[Len(c.results)]

\* C17: the writer task's first insert error sets the error flag, which is
\* never cleared; a write that starts with the flag set returns an error and
\* enqueues nothing; a flush never returns Ok once the flag is set.
C17_StoreFailsFastAfterError ==
  /\ [](clickhouse.task.insert_error => clickhouse.has_error)
  /\ [](clickhouse.has_error =>
          \A i \in 1..Len(clickhouse.results) :
            clickhouse.results[i].op = "flush" => clickhouse.results[i].result = "Err")
  /\ [][/\ clickhouse.has_error => clickhouse'.has_error
        /\ (ClickhouseWriteStarts /\ clickhouse.has_error) =>
             /\ Len(clickhouse'.results) = Len(clickhouse.results) + 1
             /\ LastResult(clickhouse').op = "write"
             /\ LastResult(clickhouse').result = "Err"
             /\ clickhouse'.writer.pc = "idle"
             /\ clickhouse'.queue = clickhouse.queue
             /\ clickhouse'.enqueued = clickhouse.enqueued]_vars

\* After an insert error a write was refused without being enqueued and the
\* flush returned an error.
C17_Witness ==
  /\ clickhouse.has_error
  /\ \E i \in 1..Len(clickhouse.results) :
       /\ clickhouse.results[i].op = "write"
       /\ clickhouse.results[i].result = "Err"
       /\ \A j \in 1..Len(clickhouse.enqueued) :
            clickhouse.enqueued[j] # clickhouse.results[i].data
  /\ \E i \in 1..Len(clickhouse.results) :
       clickhouse.results[i].op = "flush" /\ clickhouse.results[i].result = "Err"

\* The write call waits in blocking_send on a full queue of a live task.
BlockedOnFullQueue ==
  /\ clickhouse.writer.pc = "sending"
  /\ Len(clickhouse.queue) = SubmissionQueueCapacity
  /\ clickhouse.task.pc # "done"

\* C18: the submission queue never holds more messages than its capacity; a
\* write on a full queue stays in blocking_send, its row neither refused nor
\* lost, until the writer task has removed a message or is over; and it
\* does not stay there forever.
C18_BoundedQueueBlocks ==
  /\ [](Len(clickhouse.queue) <= SubmissionQueueCapacity)
  /\ [][(clickhouse.writer.pc = "sending" /\ clickhouse'.writer.pc # "sending") =>
          /\ ~BlockedOnFullQueue
          /\ IF clickhouse.task.pc # "done"
             THEN /\ clickhouse'.queue =
                       Append(clickhouse.queue, RowMsg(clickhouse.writer.data))
                  /\ LastResult(clickhouse').result = "Ok"
             ELSE LastResult(clickhouse').result = "Err"]_vars
  /\ BlockedOnFullQueue ~> clickhouse.writer.pc # "sending"

\* A write waits on a full queue while the writer task is receiving.
C18_Witness == BlockedOnFullQueue /\ clickhouse.task.pc = "recv"

\* The rows whose write returned Ok, in the order of the calls.
RowsWrittenOk(c) ==
  LET ok == SelectSeq(c.results, LAMBDA r : r.op = "write" /\ r.result = "Ok")
  IN [k \in 1..Len(ok) |-> ok[k].data]

FlushReturnedOk(c) ==
  \E i \in 1..Len(c.results) : c.results[i].op = "flush" /\ c.results[i].result = "Ok"

\* C35: the writer task takes a Flush message only after it has written
\* every row queued before it to the inserter; the reply to the Flush is
\* sent after the inserter has ended; and when flush returned Ok, the rows
\* whose write returned Ok were all written to the inserter, in write order,
\* and the inserter ended without error.
C35_FlushAfterQueuedRows ==
  /\ [][(~clickhouse.task.flush /\ clickhouse'.task.flush) =>
          /\ Head(clickhouse.queue) = FlushMsg
          /\ clickhouse.inserted = clickhouse.enqueued
          /\ clickhouse'.inserted = clickhouse.inserted]_vars
  /\ [](clickhouse.reply \in {"Ok", "Err"} =>
          /\ clickhouse.task.flush
          /\ clickhouse.task.end = clickhouse.reply)
  /\ [](FlushReturnedOk(clickhouse) =>
          /\ clickhouse.inserted = RowsWrittenOk(clickhouse)
          /\ clickhouse.task.end = "Ok"
          /\ clickhouse.task.pc = "done")

\* The flush returned Ok after three rows were written to the inserter.
C35_Witness ==
  /\ FlushReturnedOk(clickhouse)
  /\ clickhouse.inserted = <<1, 2, 3>>
  /\ clickhouse.reply = "Ok"

\* C36: every row whose write returned Ok is passed to the inserter by the
\* writer task: once the task is over, no such row is left out.
C36_NoAcceptedRowDropped ==
  clickhouse.task.pc = "done" =>
    \A i \in 1..Len(clickhouse.results) :
      (clickhouse.results[i].op = "write" /\ clickhouse.results[i].result = "Ok") =>
        \E k \in 1..Len(clickhouse.offered) :
          clickhouse.offered[k] = clickhouse.results[i].data

\* ================================================ the envelope (output.rs Tuple)
\* Strings are sequences of bytes.

\* A serde_json Value: its kind and its content (the bytes of a string, the
\* byte of a bool, the i64 of a number, the values of an array, the entries
\* of an object in the order the map iterates them, each a key and a value).
JsonNull == [kind |-> "null", v |-> <<>>]
JsonBool(b) == [kind |-> "bool", v |-> << IF b THEN 1 ELSE 0 >>]
JsonNumber(n) == [kind |-> "number", v |-> << n >>]
JsonString(bytes) == [kind |-> "string", v |-> bytes]
JsonArray(values) == [kind |-> "array", v |-> values]
JsonObject(map) == [kind |-> "object", v |-> map]
Entry(key, value) == [key |-> key, value |-> value]

\* Value::is_object and Value::as_object.
is_object(value) == value.kind = "object"
as_object(value) == value.v

NoData == [some |-> FALSE, value |-> JsonNull]

\* The values a decoder may hand to set_data: one of each kind that is not an
\* object, and three objects.
NonObjectValues ==
  { JsonNull, JsonBool(TRUE), JsonNumber(7), JsonString(<<105>>),
    JsonArray(<< JsonNumber(1) >>) }

DataValues ==
  NonObjectValues \cup
  { JsonObject(<<>>),
    JsonObject(<< Entry(<<105>>, JsonBool(TRUE)) >>),
    JsonObject(<< Entry(<<105>>, JsonNumber(2)),
                  Entry(<<114, 100>>, JsonString(<<116>>)) >>) }

\* sort_data: None, and i64 values (122324 is the value of the test
\* unique_id_stabilility).
SortValues == {None, Some(0), Some(1), Some(122324), Some(-1)}

Computers == {<<109>>, <<109, 50>>}
OriginalFiles == {<<111>>, <<50, 111>>}

\* Fields as the archive thread or a test builds them.
Fields(machine_id, original_file, archive_name, archive_file, key) ==
  [key |-> key, machine_id |-> machine_id, original_file |-> original_file,
   archive_name |-> archive_name, archive_file |-> archive_file]

\* Tuple::new at time `now`.
Tuple_new(fields, now) ==
  [key |-> fields.key, id |-> <<>>, import_date |-> now,
   computer |-> fields.machine_id, original_file |-> fields.original_file,
   archive_name |-> fields.archive_name, archive_file |-> fields.archive_file,
   data |-> NoData, sort_data |-> None, set_result |-> "none"]

\* blake3 stands behind this: the first 16 bytes of a digest that depends on
\* every input byte and its position.
RECURSIVE WeightedSum(_, _, _)
WeightedSum(bytes, i, k) ==
  IF i > Len(bytes) THEN 0
  ELSE bytes[i] * (i + k) + WeightedSum(bytes, i + 1, k)

blake3(bytes) ==
  [k \in 1..16 |-> (WeightedSum(bytes, 1, k) + 31 * k + Len(bytes)) % 256]

\* The 8 bytes of an i64 in two's complement, least significant first (the
\* values used fit 32 bits: the upper four bytes are the sign extension).
to_le_bytes(v) ==
  [k \in 1..8 |-> IF k <= 4 THEN (v \div (256 ^ (k - 1))) % 256
                  ELSE IF v < 0 THEN 255 ELSE 0]

\* Tuple::hash_number for an i64, Tuple::hash_json_value,
\* Tuple::hash_json_array and Tuple::hash_json_map: the bytes fed to the
\* hasher, in order.  Nothing is fed between a key and its value, between two
\* entries or two elements, and nothing for null.
hash_number(n) == to_le_bytes(n)

RECURSIVE hash_json_value(_), hash_json_array(_), hash_json_map(_)
hash_json_value(value) ==
  CASE value.kind = "bool" -> value.v
    [] value.kind = "number" -> hash_number(value.v[1])
    [] value.kind = "string" -> value.v
    [] value.kind = "array" -> hash_json_array(value.v)
    [] value.kind = "object" -> hash_json_map(value.v)
    [] value.kind = "null" -> <<>>

hash_json_array(js_array) ==
  IF js_array = <<>> THEN <<>>
  ELSE hash_json_value(Head(js_array)) \o hash_json_array(Tail(js_array))

hash_json_map(map) ==
  IF map = <<>> THEN <<>>
  ELSE Head(map).key \o hash_json_value(Head(map).value)
         \o hash_json_map(Tail(map))

Reverse(seq) == [k \in 1..Len(seq) |-> seq[Len(seq) + 1 - k]]

to_be_bytes(v) == Reverse(to_le_bytes(v))

\* zerocopy IntoBytes::as_bytes of an i64: its bytes as they lie in memory.
as_bytes(v, endian) == IF endian = "little" THEN to_le_bytes(v) ELSE to_be_bytes(v)

\* base64 URL_SAFE_NO_PAD.
Alphabet ==
  << "A", "B", "C", "D", "E", "F", "G", "H", "I", "J", "K", "L", "M",
     "N", "O", "P", "Q", "R", "S", "T", "U", "V", "W", "X", "Y", "Z",
     "a", "b", "c", "d", "e", "f", "g", "h", "i", "j", "k", "l", "m",
     "n", "o", "p", "q", "r", "s", "t", "u", "v", "w", "x", "y", "z",
     "0", "1", "2", "3", "4", "5", "6", "7", "8", "9", "-", "_" >>

\* The sextets of a byte string: 4 for every 3 bytes, 2 or 3 for a rest of 1
\* or 2 bytes.
RECURSIVE Sextets(_)
Sextets(bytes) ==
  IF Len(bytes) = 0 THEN <<>>
  ELSE IF Len(bytes) = 1
  THEN << bytes[1] \div 4, (bytes[1] % 4) * 16 >>
  ELSE IF Len(bytes) = 2
  THEN << bytes[1] \div 4, (bytes[1] % 4) * 16 + bytes[2] \div 16,
          (bytes[2] % 16) * 4 >>
  ELSE << bytes[1] \div 4, (bytes[1] % 4) * 16 + bytes[2] \div 16,
          (bytes[2] % 16) * 4 + bytes[3] \div 64, bytes[3] % 64 >>
         \o Sextets(SubSeq(bytes, 4, Len(bytes)))

encode(bytes) ==
  LET x == Sextets(bytes) IN [k \in 1..Len(x) |-> Alphabet[x[k] + 1]]

SextetOf(char) == (CHOOSE n \in 1..64 : Alphabet[n] = char) - 1

\* The bytes a base64 string stands for.
RECURSIVE BytesOf(_)
BytesOf(x) ==
  IF Len(x) < 2 THEN <<>>
  ELSE IF Len(x) = 2
  THEN << x[1] * 4 + x[2] \div 16 >>
  ELSE IF Len(x) = 3
  THEN << x[1] * 4 + x[2] \div 16, (x[2] % 16) * 16 + x[3] \div 4 >>
  ELSE << x[1] * 4 + x[2] \div 16, (x[2] % 16) * 16 + x[3] \div 4,
          (x[3] % 4) * 64 + x[4] >>
         \o BytesOf(SubSeq(x, 5, Len(x)))

decode(id) == BytesOf([k \in 1..Len(id) |-> SextetOf(id[k])])

\* What compute_id feeds the hasher: the data map, then computer, then
\* original_file.
HasherInput(t) ==
  (IF t.data.some THEN hash_json_map(as_object(t.data.value)) ELSE <<>>)
    \o t.computer \o t.original_file

\* The digest compute_id takes its key from.
IdHash(t) == blake3(HasherInput(t))

\* The 16 bytes of the id and their encoding, for a given digest.
IdOf(t, hash, endian) ==
  encode(IF t.sort_data.some
         THEN as_bytes(t.sort_data.value, endian) \o SubSeq(hash, 1, 8)
         ELSE SubSeq(hash, 1, 16))

\* A compute_id that also feeds archive_name to the hasher.
compute_id_with_archive(t, endian) ==
  IdOf(t, blake3(HasherInput(t) \o t.archive_name), endian)

\* Tuple::compute_id on a build target of the given byte order.
compute_id(t, endian) == IdOf(t, IdHash(t), endian)

\* A set_data without the check that data is already set.
set_data_again(t, data, sort_data, endian) ==
  IF ~is_object(data) THEN [t EXCEPT !.set_result = "JsonNotAndObject"]
  ELSE LET u == [t EXCEPT !.data = [some |-> TRUE, value |-> data],
                          !.sort_data = sort_data]
       IN [u EXCEPT !.id = compute_id(u, endian), !.set_result = "Ok"]

\* A set_data that stores sort_data before it looks at data.
set_data_sort_first(t, data, sort_data, endian) ==
  IF t.data.some THEN [t EXCEPT !.set_result = "DataField"]
  ELSE IF ~is_object(data)
  THEN [t EXCEPT !.sort_data = sort_data, !.set_result = "JsonNotAndObject"]
  ELSE LET u == [t EXCEPT !.data = [some |-> TRUE, value |-> data],
                          !.sort_data = sort_data]
       IN [u EXCEPT !.id = compute_id(u, endian), !.set_result = "Ok"]

\* Tuple::set_data; set_result notes what the call returned, set_ok that a
\* call succeeded.
set_data(t, data, sort_data, endian) ==
  IF t.data.some THEN [t EXCEPT !.set_result = "DataField"]
  ELSE IF ~is_object(data) THEN [t EXCEPT !.set_result = "JsonNotAndObject"]
  ELSE LET u == [t EXCEPT !.data = [some |-> TRUE, value |-> data],
                          !.sort_data = sort_data]
       IN [u EXCEPT !.id = compute_id(u, endian), !.set_result = "Ok"]

\* Two envelopes: the second may differ from the first in import_date,
\* archive_name, archive_file and key.
TupleInit ==
  /\ PipelineAtRest
  /\ DecodersAtRest
  /\ OutputAtRest
  /\ KafkaAtRest
  /\ ClickhouseAtRest
  /\ target_endian \in {"little", "big"}
  /\ \E c1 \in Computers, o1 \in OriginalFiles, c2 \in Computers,
        o2 \in OriginalFiles, other \in BOOLEAN :
       tuples =
         << Tuple_new(Fields(c1, o1, <<97>>, <<102>>, <<0, 0>>), 1),
            IF other
            THEN Tuple_new(Fields(c2, o2, <<98>>, <<103>>, <<7, 7>>), 2)
            ELSE Tuple_new(Fields(c2, o2, <<97>>, <<102>>, <<0, 0>>), 1) >>

\* The arguments of a set_data call: an object with any sort_data, a value
\* that is not an object with or without a sort_data.
SetDataArguments ==
  ((DataValues \ NonObjectValues) \X SortValues)
    \cup (NonObjectValues \X {None, Some(1)})

\* A decoder calls set_data on envelope i.
SetData(i) ==
  /\ \E args \in SetDataArguments :
       tuples' = [tuples EXCEPT ![i] = set_data(@, args[1], args[2], target_endian)]
  /\ UNCHANGED << target_endian, outside_tuple >>

TupleNext == \E i \in 1..2 : SetData(i)

TupleSpec == TupleInit /\ [][TupleNext]_vars

\* ---------------------------------------------------- claims on the envelope
SetOk(t) == t.data.some

\* C19: on every envelope whose set_data succeeded with sort_data = s, the
\* first 8 of the 16 bytes encoded in id are the big-endian encoding of s and
\* the last 8 are hash[0..8].
C19_IdStartsWithBigEndianSortData ==
  \A i \in 1..Len(tuples) :
    (SetOk(tuples[i]) /\ tuples[i].sort_data.some) =>
      /\ Len(decode(tuples[i].id)) = 16
      /\ SubSeq(decode(tuples[i].id), 1, 8) = to_be_bytes(tuples[i].sort_data.value)
      /\ SubSeq(decode(tuples[i].id), 9, 16) = SubSeq(IdHash(tuples[i]), 1, 8)

\* C20: two envelopes with the same computer, original_file, data and
\* sort_data have the same id, whatever their import_date, archive_name,
\* archive_file and key.
C20_IdDependsOnFourFieldsOnly ==
  \A i, j \in 1..Len(tuples) :
    (/\ SetOk(tuples[i]) /\ SetOk(tuples[j])
     /\ tuples[i].computer = tuples[j].computer
     /\ tuples[i].original_file = tuples[j].original_file
     /\ tuples[i].data = tuples[j].data
     /\ tuples[i].sort_data = tuples[j].sort_data) =>
      tuples[i].id = tuples[j].id

\* Two envelopes equal on the four values and different on the other four,
\* with a sort_data and a non-empty data: one id.
C20_Witness ==
  /\ Len(tuples) = 2
  /\ SetOk(tuples[1]) /\ SetOk(tuples[2])
  /\ tuples[1].computer = tuples[2].computer
  /\ tuples[1].original_file = tuples[2].original_file
  /\ tuples[1].data = tuples[2].data /\ as_object(tuples[1].data.value) # <<>>
  /\ tuples[1].sort_data = tuples[2].sort_data /\ tuples[1].sort_data.some
  /\ tuples[1].import_date # tuples[2].import_date
  /\ tuples[1].archive_name # tuples[2].archive_name
  /\ tuples[1].archive_file # tuples[2].archive_file
  /\ tuples[1].key # tuples[2].key
  /\ tuples[1].id = tuples[2].id /\ Len(tuples[1].id) = 22

\* What set_data may write besides its result.
Content(t) == << t.data, t.sort_data, t.id >>

\* C22: a set_data call on an envelope whose data is set returns the
\* DataField error and leaves data, sort_data and id as the first call set
\* them; so set_data succeeds at most once per envelope.
C22_SetDataOnlyOnce ==
  [][\A i \in 1..Len(tuples) :
       tuples[i].data.some =>
         /\ Content(tuples'[i]) = Content(tuples[i])
         /\ tuples'[i] # tuples[i] => tuples'[i].set_result = "DataField"]_vars

\* An envelope set with one object and one sort_data, then refused a set_data.
C22_Witness ==
  \E i \in 1..Len(tuples) :
    /\ tuples[i].set_result = "DataField"
    /\ as_object(tuples[i].data.value) # <<>>
    /\ tuples[i].sort_data = Some(122324)
    /\ Len(tuples[i].id) = 22

\* C23: a set data is always an object, and a set_data call that returns the
\* not-an-object error leaves the envelope with data absent, sort_data absent
\* and id empty.
C23_NonObjectRefused ==
  /\ [](\A i \in 1..Len(tuples) :
          /\ tuples[i].data.some => is_object(tuples[i].data.value)
          /\ tuples[i].set_result = "JsonNotAndObject" =>
                Content(tuples[i]) = << NoData, None, <<>> >>)
  /\ [][\A i \in 1..Len(tuples) :
          (tuples'[i] # tuples[i] /\ tuples'[i].set_result = "JsonNotAndObject")
            => Content(tuples'[i]) = Content(tuples[i])]_vars

\* One envelope refused a value that is not an object, the other holds an
\* object.
C23_Witness ==
  /\ tuples[1].set_result = "JsonNotAndObject" /\ ~tuples[1].data.some
  /\ tuples[1].id = <<>> /\ tuples[1].sort_data = None
  /\ tuples[2].set_result = "Ok" /\ is_object(tuples[2].data.value)

\* ----------------------------------------- records of one file (canonical form)
\* Objects a decoder can build for the rows of one file: string, number,
\* bool, null, array and nested-object values under short keys.
ObjectValues ==
  { JsonObject(<<>>),
    JsonObject(<< Entry(<<105>>, JsonString(<<114, 100>>)) >>),
    JsonObject(<< Entry(<<105, 114>>, JsonString(<<100>>)) >>),
    JsonObject(<< Entry(<<105>>, JsonNull) >>),
    JsonObject(<< Entry(<<105>>, JsonNumber(1)) >>),
    JsonObject(<< Entry(<<105>>, JsonArray(<< JsonNumber(1) >>)) >>),
    JsonObject(<< Entry(<<105>>, JsonNumber(2)),
                  Entry(<<114, 100>>, JsonNumber(3)) >>),
    JsonObject(<< Entry(<<105>>, JsonBool(TRUE)) >>) }

\* Two envelopes built from the same Fields (one file of one computer), as in
\* the test unique_id.
RecordsInit ==
  /\ PipelineAtRest
  /\ DecodersAtRest
  /\ OutputAtRest
  /\ KafkaAtRest
  /\ ClickhouseAtRest
  /\ target_endian \in {"little", "big"}
  /\ \E c \in Computers, o \in OriginalFiles :
       tuples = << Tuple_new(Fields(c, o, <<97>>, <<102>>, <<0, 0>>), 1),
                   Tuple_new(Fields(c, o, <<97>>, <<102>>, <<0, 0>>), 1) >>

\* A decoder sets the data of record i.
SetRecord(i) ==
  /\ \E data \in ObjectValues, sort_data \in {None, Some(1)} :
       tuples' = [tuples EXCEPT ![i] = set_data(@, data, sort_data, target_endian)]
  /\ UNCHANGED << target_endian, outside_tuple >>

RecordsNext == \E i \in 1..2 : SetRecord(i)

RecordsSpec == RecordsInit /\ [][RecordsNext]_vars

\* C21: two records with the same computer, original_file and sort_data and
\* different data objects feed the hasher different byte sequences (and so,
\* the hash being collision-free, get different ids).
C21_DistinctDataDistinctBytes ==
  \A i, j \in 1..Len(tuples) :
    (/\ SetOk(tuples[i]) /\ SetOk(tuples[j])
     /\ tuples[i].computer = tuples[j].computer
     /\ tuples[i].original_file = tuples[j].original_file
     /\ tuples[i].sort_data = tuples[j].sort_data
     /\ tuples[i].data # tuples[j].data) =>
      /\ HasherInput(tuples[i]) # HasherInput(tuples[j])
      /\ tuples[i].id # tuples[j].id

\* ================================================ the tabular decoder (csv.rs)
\* The records of a file (header not counted).
MaxRecords == 3

\* A cell is a string; a record is what csv_reader.records() yields: the
\* cells of a line, or an error of the reader (a line that cannot be read).
Record(cells) == [error |-> FALSE, cells |-> cells]
ReaderError == [error |-> TRUE, cells |-> <<>>]

\* Two columns, "a" (Integer) and "b" (String); cells "7", "x" and "".
Cells == { <<>>, <<55>>, <<120>> }

Records ==
  { Record(<< <<55>>, <<120>> >>), Record(<< <<55>>, <<>> >>),
    Record(<< <<>>, <<120>> >>), Record(<< <<120>>, <<>> >>), ReaderError }

RECURSIVE Files(_)
Files(n) ==
  IF n = 0 THEN { <<>> }
  ELSE Files(n - 1) \cup
       { Append(f, r) : f \in {g \in Files(n - 1) : Len(g) = n - 1}, r \in Records }

\* struct Converter, as create_converters builds it from the mapping.
Converter(field_name, mandatory, field_type) ==
  [field_name |-> field_name, mandatory |-> mandatory, field_type |-> field_type]

Converters ==
  { << Converter(<<97>>, m1, "Integer"), Converter(<<98>>, m2, "String") >> :
      m1 \in BOOLEAN, m2 \in BOOLEAN } \
  { << Converter(<<97>>, TRUE, "Integer"), Converter(<<98>>, TRUE, "String") >> }

\* sort_pos when no header is the mapping's sort_field (usize::MAX in the
\* code: no column has this position).
NoSortColumn == 0

\* str::parse::<i64>: an optional sign and at least one decimal digit.
RECURSIVE DecimalValue(_)
DecimalValue(digits) ==
  IF digits = <<>> THEN 0
  ELSE DecimalValue(SubSeq(digits, 1, Len(digits) - 1)) * 10
         + (digits[Len(digits)] - 48)

parse_i64(value) ==
  LET signed == value # <<>> /\ value[1] \in {43, 45}
      digits == IF signed THEN Tail(value) ELSE value
  IN IF digits = <<>> \/ \E k \in 1..Len(digits) : digits[k] \notin 48..57
     THEN [ok |-> FALSE, value |-> 0]
     ELSE [ok |-> TRUE,
           value |-> IF signed /\ value[1] = 45 THEN 0 - DecimalValue(digits)
                     ELSE DecimalValue(digits)]

\* Converter::to_json_value (String and Integer columns).
to_json_value(conv, value) ==
  IF conv.field_type = "String" THEN [ok |-> TRUE, value |-> JsonString(value)]
  ELSE LET n == parse_i64(value)
       IN [ok |-> n.ok, value |-> JsonNumber(n.value)]

\* Converter::to_sort_data: the hash of a String cell (DefaultHasher stands
\* behind WeightedSum), the value of an Integer cell.
to_sort_data(conv, value) ==
  IF conv.field_type = "String"
  THEN [ok |-> TRUE, value |-> WeightedSum(value, 1, 1)]
  ELSE parse_i64(value)

\* Map::insert: the value of an existing key is replaced in place.
map_insert(map, key, value) ==
  IF \E k \in 1..Len(map) : map[k].key = key
  THEN [k \in 1..Len(map) |-> IF map[k].key = key THEN Entry(key, value) ELSE map[k]]
  ELSE Append(map, Entry(key, value))

JsonLine(result, map, sort_data) ==
  [result |-> result, data |-> JsonObject(map), sort_data |-> sort_data]

\* A conversion that inserts null for an empty cell of a non-mandatory column.
RECURSIVE convert_columns_null(_, _, _, _, _, _)
convert_columns_null(converters, cells, sort_column, column, map, sort_data) ==
  IF column > Len(cells) THEN JsonLine("Ok", map, sort_data)
  ELSE LET conv == converters[column]
           data == cells[column]
           sort == IF sort_column = column THEN to_sort_data(conv, data)
                   ELSE [ok |-> TRUE, value |-> 0]
           json == to_json_value(conv, data)
       IN IF data = <<>>
          THEN IF conv.mandatory THEN JsonLine("CsvMandatoryField", map, sort_data)
               ELSE convert_columns_null(converters, cells, sort_column, column + 1,
                                         map_insert(map, conv.field_name, JsonNull),
                                         sort_data)
          ELSE IF ~sort.ok THEN JsonLine("ParseInt", map, sort_data)
          ELSE IF ~json.ok THEN JsonLine("CsvParsing", map, sort_data)
          ELSE convert_columns_null(converters, cells, sort_column, column + 1,
                                    map_insert(map, conv.field_name, json.value),
                                    IF sort_column = column THEN Some(sort.value)
                                    ELSE sort_data)

\* The loop of convert_line over the cells of a record, from `column` on.
RECURSIVE convert_columns(_, _, _, _, _, _)
convert_columns(converters, cells, sort_column, column, map, sort_data) ==
  IF column > Len(cells) THEN JsonLine("Ok", map, sort_data)
  ELSE LET conv == converters[column]
           data == cells[column]
           sort == IF sort_column = column THEN to_sort_data(conv, data)
                   ELSE [ok |-> TRUE, value |-> 0]
           json == to_json_value(conv, data)
       IN IF data = <<>>
          THEN IF conv.mandatory THEN JsonLine("CsvMandatoryField", map, sort_data)
               ELSE convert_columns(converters, cells, sort_column, column + 1,
                                    map, sort_data)
          ELSE IF ~sort.ok THEN JsonLine("ParseInt", map, sort_data)
          ELSE IF ~json.ok THEN JsonLine("CsvParsing", map, sort_data)
          ELSE convert_columns(converters, cells, sort_column, column + 1,
                               map_insert(map, conv.field_name, json.value),
                               IF sort_column = column THEN Some(sort.value)
                               ELSE sort_data)

\* convert_line: `record?`, then the columns.
convert_line(converters, record, sort_column) ==
  IF record.error THEN JsonLine("CsvError", <<>>, None)
  ELSE convert_columns(converters, record.cells, sort_column, 1, <<>>, None)

ConvertErrors == {"CsvError", "CsvMandatoryField", "ParseInt", "CsvParsing"}

\* A loop that skips one record more than skip_lines.
SkipsOneMore(line_nb, skip_lines) == line_nb <= skip_lines

\* `if line_nb < skip_lines { continue; }`
Skips(line_nb, skip_lines) == line_nb < skip_lines

\* A loop that returns the error whatever best_effort is.
AfterConvertErrorAbort(best_effort, err) == err

\* The Err arm of `match json_line`.
AfterConvertError(best_effort, err) == IF best_effort THEN "running" ELSE err

\* The Fields of the file the decoder is called on.
CsvFields == Fields(<<109>>, <<111>>, <<97>>, <<102>>, <<0, 0>>)

\* A call of parse: its arguments, the number of records taken from the
\* reader, the lines convert_line was called on, the last json_line, and how
\* the call ended.
CsvCall(records, converters, sort_column, best_effort, skip_lines) ==
  [records |-> records, converters |-> converters, sort_column |-> sort_column,
   best_effort |-> best_effort, skip_lines |-> skip_lines, line_nb |-> 0,
   converted |-> <<>>, json_line |-> JsonLine("none", <<>>, None),
   result |-> "running", returned |-> None]

CsvInit ==
  /\ PipelineAtRest
  /\ KafkaAtRest
  /\ ClickhouseAtRest
  /\ TupleAtRest
  /\ srum = NoCall
  /\ FunctionsAtRest
  /\ decoder = NoDecoder
  /\ \E n \in 1..2 : output = Output_new(n)
  /\ \E records \in Files(MaxRecords), converters \in Converters,
        sort_column \in {NoSortColumn, 1, 2}, best_effort \in BOOLEAN,
        skip_lines \in 0..2 :
       csv = CsvCall(records, converters, sort_column, best_effort, skip_lines)

\* One iteration of `for (line_nb, line) in csv_reader.records().enumerate()`.
CsvRecord ==
  /\ csv.result = "running"
  /\ csv.line_nb < Len(csv.records)
  /\ LET line_nb == csv.line_nb
         line == csv.records[line_nb + 1]
         next == [csv EXCEPT !.line_nb = line_nb + 1]
     IN IF Skips(line_nb, csv.skip_lines)
        THEN csv' = next /\ output' = output
        ELSE LET json_line == convert_line(csv.converters, line, csv.sort_column)
                 seen == [next EXCEPT !.converted = Append(@, line_nb),
                                      !.json_line = json_line]
             IN IF json_line.result = "Ok"
                THEN LET tuple == set_data(Tuple_new(CsvFields, 1), json_line.data,
                                           json_line.sort_data, target_endian)
                     IN IF tuple.set_result # "Ok"
                        THEN /\ csv' = [seen EXCEPT !.result = tuple.set_result]
                             /\ output' = output
                        ELSE \E failing \in SUBSET (1..Len(output.list)) :
                               LET w == Output_write(output, tuple, failing) IN
                                 /\ output' = w.output
                                 /\ csv' = [seen EXCEPT !.result = AfterWrite(w.result)]
                ELSE /\ csv' = [seen EXCEPT !.result =
                                   AfterConvertError(csv.best_effort, json_line.result)]
                     /\ output' = output
  /\ UNCHANGED outside_csv

\* The reader is exhausted: parse returns Ok(()).
CsvReturn ==
  /\ csv.result = "running"
  /\ csv.line_nb = Len(csv.records)
  /\ csv' = [csv EXCEPT !.result = "Ok"]
  /\ UNCHANGED << output, outside_csv >>

\* parse_csv returns (`parse(..)?; Ok(output.num_rows())`): the fan-out goes
\* out of scope.
CsvDrop ==
  /\ csv.result # "running"
  /\ output.state = "live"
  /\ csv' = [csv EXCEPT !.returned =
                IF csv.result = "Ok" THEN Some(output.num_rows) ELSE None]
  /\ \E failing \in SUBSET (1..Len(output.list)) :
       output' = Output_drop(output, failing)
  /\ UNCHANGED outside_csv

CsvNext == CsvRecord \/ CsvReturn \/ CsvDrop

CsvSpec == CsvInit /\ [][CsvNext]_vars

\* ------------------------------------------- claims on the tabular decoder
\* Whether a record converts, decided column by column: no reader error, no
\* empty cell in a mandatory column, and every non-empty Integer cell is a
\* number.
IsNumber(cell) == cell = <<55>>

Convertible(call, record) ==
  /\ ~record.error
  /\ \A c \in 1..Len(record.cells) :
       IF record.cells[c] = <<>> THEN ~call.converters[c].mandatory
       ELSE call.converters[c].field_type = "Integer" => IsNumber(record.cells[c])

\* The 0-based lines of the first `upto` records that are past the skipped
\* ones, and those of them that convert.
LinesPastSkip(call, upto) ==
  SelectSeq([k \in 1..upto |-> k - 1], LAMBDA l : l >= call.skip_lines)

ConvertibleLines(call, upto) ==
  SelectSeq(LinesPastSkip(call, upto),
            LAMBDA l : Convertible(call, call.records[l + 1]))

\* The data of the rows a sink holds, and the data the convertible lines give.
RowsData(sink) == [k \in 1..Len(sink.rows) |-> sink.rows[k].data.value]

LinesData(call, lines) ==
  [k \in 1..Len(lines) |->
     convert_line(call.converters, call.records[lines[k] + 1], call.sort_column).data]

SinkRows == [i \in 1..Len(output.list) |-> output.list[i].rows]

\* C27: with best_effort a record that fails conversion never ends the call,
\* and as long as no sink refused a row the sinks hold exactly the rows of the
\* convertible records taken so far, in order; without best_effort the first
\* record that fails conversion ends the call with its error, and the sinks
\* keep the rows of the records before it; once the call has ended the rows
\* of the sinks do not change.
C27_RowErrorPolicy ==
  /\ [](csv.result # "Err" =>
          \A i \in 1..Len(output.list) :
            RowsData(output.list[i]) =
              LinesData(csv, ConvertibleLines(csv, csv.line_nb)))
  /\ [](csv.best_effort => csv.result \notin ConvertErrors)
  /\ [](~csv.best_effort =>
          IF csv.result \in ConvertErrors
          THEN /\ ~Convertible(csv, csv.records[csv.line_nb])
               /\ LinesPastSkip(csv, csv.line_nb - 1)
                    = ConvertibleLines(csv, csv.line_nb - 1)
          ELSE csv.result # "Err" =>
                 LinesPastSkip(csv, csv.line_nb) = ConvertibleLines(csv, csv.line_nb))
  /\ [][csv.result # "running" => SinkRows' = SinkRows]_vars

\* With best_effort: a good record, a failing one, a good one; the call
\* returned Ok and the sink holds the two good rows.
C27_Witness ==
  /\ csv.best_effort /\ csv.result = "Ok" /\ csv.skip_lines = 0
  /\ Len(csv.records) = 3
  /\ Convertible(csv, csv.records[1])
  /\ ~Convertible(csv, csv.records[2])
  /\ Convertible(csv, csv.records[3])
  /\ Len(output.list[1].rows) = 2
  /\ output.state = "dropped"

\* C28: convert_line is called on no record of the first min(skip_lines, n)
\* and on every record taken after them (so with skip_lines = 0 on the
\* first), and the sinks hold no more rows than records past the skipped ones.
C28_SkipLines ==
  /\ csv.converted = LinesPastSkip(csv, csv.line_nb)
  /\ \A k \in 1..Len(csv.converted) : csv.converted[k] >= csv.skip_lines
  /\ csv.skip_lines = 0 /\ csv.line_nb > 0 => csv.converted[1] = 0
  /\ csv.result = "Ok" =>
       /\ csv.line_nb = Len(csv.records)
       /\ Len(csv.converted) =
            IF Len(csv.records) > csv.skip_lines
            THEN Len(csv.records) - csv.skip_lines ELSE 0
  /\ \A i \in 1..Len(output.list) :
       Len(output.list[i].rows) <= Len(csv.converted)

\* skip_lines = 2 on three good records: one row, of the third record.
C28_Witness ==
  /\ csv.skip_lines = 2 /\ csv.result = "Ok" /\ Len(csv.records) = 3
  /\ csv.converted = << 2 >>
  /\ Len(output.list[1].rows) = 1
  /\ RowsData(output.list[1]) = LinesData(csv, << 2 >>)

\* The record of the last convert_line call.
LastRecord == csv.records[csv.converted[Len(csv.converted)] + 1]

HasKey(data, key) == \E k \in 1..Len(as_object(data)) : as_object(data)[k].key = key

MaxTableRows == 2

\* A table list in which two tables write to the same topic.
srum_tables_shared_topic ==
  << "srum_app_timeline", "srum_application_resources", "srum_energy_estimation",
     "srum_energy_usage", "srum_energy_usage",
     "srum_network_connectivity_usage", "srum_network_data_usage",
     "srum_tagged_energy", "srum_vfuprov", "srum_wpn_provider" >>

\* srum_tables(): the topics of the known tables, in order.
srum_tables ==
  << "srum_app_timeline", "srum_application_resources", "srum_energy_estimation",
     "srum_energy_usage", "srum_energy_usage_long_term",
     "srum_network_connectivity_usage", "srum_network_data_usage",
     "srum_tagged_energy", "srum_vfuprov", "srum_wpn_provider" >>

\* A call of parse_all_tables on a fan-out configuration of `sinks` sinks: the
\* table the loop is at, whether its fan-out is open, num_rows, and how the
\* call ended.  History: the tables parse_table was called on, the number of
\* them that failed, the writes that returned Ok, and those of them made for
\* a table that failed later; and the .jsonl files that the file sink of the
\* call has created in <folder>/<archive_name>/, named by their topic.
SrumCall(sinks) ==
  [sinks |-> sinks, table |-> 1, pc |-> "new", num_rows |-> 0,
   result |-> "running", returned |-> None,
   parsed |-> <<>>, failed |-> 0, written |-> 0, partial |-> 0, files |-> {}]

SrumInit ==
  /\ PipelineAtRest
  /\ KafkaAtRest
  /\ ClickhouseAtRest
  /\ TupleAtRest
  /\ csv = NoCall
  /\ FunctionsAtRest
  /\ decoder = NoDecoder
  /\ output = NoOutput
  /\ \E n \in 1..2 : srum = SrumCall(n)

\* `Output::new(..)?` for the table the loop is at: every sink is built (the
\* file sink creates and truncates <context>_<topic>.jsonl); Err ends the call.
SrumOutput ==
  /\ srum.result = "running"
  /\ srum.pc = "new"
  /\ \E ok \in BOOLEAN :
       IF ok
       THEN /\ output' = Output_new(srum.sinks)
            /\ srum' = [srum EXCEPT !.pc = "rows",
                                    !.parsed = Append(@, srum.table),
                                    !.files = @ \cup {srum_tables[srum.table]}]
       ELSE /\ output' = output
            /\ srum' = [srum EXCEPT !.result = "Err"]
  /\ UNCHANGED outside_srum

\* parse_table: one row of the table is read, converted and written.
SrumRow ==
  /\ srum.result = "running"
  /\ srum.pc = "rows"
  /\ Len(output.list[1].rows) < MaxTableRows
  /\ \E failing \in SUBSET (1..Len(output.list)) :
       LET w == Output_write(output, Len(output.list[1].rows) + 1, failing) IN
         /\ output' = w.output
         /\ srum' = IF w.result = "Ok"
                    THEN [srum EXCEPT !.written = @ + 1]
                    ELSE [srum EXCEPT !.pc = "failed"]
  /\ UNCHANGED outside_srum

\* parse_table returns Err for another reason: the table or a row cannot be
\* read.
SrumTableError ==
  /\ srum.result = "running"
  /\ srum.pc = "rows"
  /\ srum' = [srum EXCEPT !.pc = "failed"]
  /\ UNCHANGED << output, outside_srum >>

\* A loop that does not count the rows of a table that failed.
AddRowsIfOk(num_rows, out, failed) ==
  IF failed THEN num_rows ELSE num_rows + out.num_rows

\* `num_rows += output.num_rows();`
AddRows(num_rows, out, failed) == num_rows + out.num_rows

\* The end of a loop iteration: parse_table has returned (Ok at the end of
\* the table, or the Err that is logged), num_rows is updated, the fan-out
\* goes out of scope; after the last table the call returns Ok(num_rows).
SrumTableEnd ==
  /\ srum.result = "running"
  /\ srum.pc \in {"rows", "failed"}
  /\ \E failing \in SUBSET (1..Len(output.list)) :
       output' = Output_drop(output, failing)
  /\ LET failed == srum.pc = "failed"
         num_rows == AddRows(srum.num_rows, output, failed)
         last == srum.table = Len(srum_tables)
     IN srum' = [srum EXCEPT
                   !.num_rows = num_rows,
                   !.failed = IF failed THEN @ + 1 ELSE @,
                   !.partial = IF failed THEN @ + output.num_rows ELSE @,
                   !.table = @ + 1,
                   !.pc = "new",
                   !.result = IF last THEN "Ok" ELSE "running",
                   !.returned = IF last THEN Some(num_rows) ELSE None]
  /\ UNCHANGED outside_srum

SrumNext == SrumOutput \/ SrumRow \/ SrumTableError \/ SrumTableEnd

SrumSpec == SrumInit /\ [][SrumNext]_vars

\* ------------------------------------------------ claims on the ESE decoder
\* The tables 1..n in order.
FirstTables(n) == [k \in 1..n |-> k]

\* C30: a table whose parsing failed is followed by the next table (the call
\* does not end on it), so that a call that returns Ok has parsed all 10
\* tables; and the count is the number of rows written successfully, those
\* of the tables that failed afterwards included.
C30_TableFailureNotFatal ==
  /\ [](srum.result # "Err" =>
          srum.parsed = FirstTables(IF srum.pc = "new" THEN srum.table - 1
                                    ELSE srum.table))
  /\ [](srum.num_rows + (IF srum.pc = "new" THEN 0 ELSE output.num_rows)
          = srum.written)
  /\ [](srum.result = "Ok" =>
          /\ srum.parsed = FirstTables(Len(srum_tables))
          /\ srum.returned = Some(srum.written))
  /\ [][srum'.failed # srum.failed =>
          /\ srum'.result # "Err"
          /\ srum'.table = srum.table + 1
          /\ srum'.num_rows = srum.num_rows + output.num_rows]_vars

\* A call that returned Ok although tables failed, one of them after rows of
\* it were written.
C30_Witness ==
  /\ srum.result = "Ok"
  /\ srum.failed >= 2
  /\ srum.partial >= 1
  /\ srum.returned = Some(srum.written)
  /\ srum.written > srum.partial
  /\ Len(srum.parsed) = 10

MaxSubAuthorities == 2

\* The decimal digits of Display for the unsigned integers.
Digits == << "0", "1", "2", "3", "4", "5", "6", "7", "8", "9" >>

\* An unsigned integer of the code (u64, u32) is held as its bytes, the most
\* significant first: 48 and 32 bits do not fit the integers of TLC.  One
\* division by ten of such a value: the quotient and the remainder.
RECURSIVE div10(_, _)
div10(bytes, rem) ==
  IF bytes = <<>> THEN [q |-> <<>>, r |-> rem]
  ELSE LET cur == rem * 256 + Head(bytes)
           rest == div10(Tail(bytes), cur % 10)
       IN [q |-> << cur \div 10 >> \o rest.q, r |-> rest.r]

\* u64::to_string / u32::to_string: the decimal digits, no leading zero.
RECURSIVE to_string(_)
to_string(bytes) ==
  LET d == div10(bytes, 0)
  IN IF \A k \in 1..Len(d.q) : d.q[k] = 0
       THEN Digits[d.r + 1]
       ELSE to_string(d.q) \o Digits[d.r + 1]

\* for i in 0..6 { identifier_authority |= (b_sid[2 + i] as u64) << (8 * (5 - i)) }
identifier_authority(b_sid) == SubSeq(b_sid, 3, 8)

\* u32::from_le_bytes(arr): arr[0] is the least significant byte.
from_le_bytes(arr) == Reverse(arr)

\* The loop over the sub-authorities, from the one at index i on.
RECURSIVE sub_authorities(_, _, _)
sub_authorities(b_sid, i, sub_authority_count) ==
  IF i >= sub_authority_count THEN ""
  ELSE "-" \o to_string(from_le_bytes(SubSeq(b_sid, 9 + 4 * i, 12 + 4 * i)))
           \o sub_authorities(b_sid, i + 1, sub_authority_count)

\* Whether an index or a slice of convert_sid is out of range (it panics).
sid_out_of_range(b_sid) ==
  \/ Len(b_sid) < 8
  \/ Len(b_sid) < 8 + 4 * b_sid[2]

\* convert_sid: the string starts with "S-1-", b_sid[0] is not read.
convert_sid(b_sid) ==
  "S-1-" \o to_string(identifier_authority(b_sid))
         \o sub_authorities(b_sid, 0, b_sid[2])

\* The byte sequence of the test sid_converter and the string it expects.
TestSid ==
  << 1, 5, 0, 0, 0, 0, 0, 5, 21, 0, 0, 0, 2, 49, 177, 214, 81, 110, 183, 63,
     11, 252, 167, 173, 147, 48, 0, 0 >>
TestSidString == "S-1-5-21-3601936642-1068985937-2913467403-12435"

\* The byte sequences that are tried: a revision, a declared count, an
\* identifier authority and zero to MaxSubAuthorities sub-authorities (fewer
\* than declared, as many, or more), and the sequence of the test.
Revisions == {1, 2}
IdentifierAuthorities == {<< 0, 0, 0, 0, 0, 5 >>, << 0, 0, 0, 0, 1, 2 >>, << 0, 0, 1, 0, 0, 0 >>}
SubAuthorities == {<< 21, 0, 0, 0 >>, << 0, 1, 0, 0 >>, << 147, 48, 0, 0 >>}

RECURSIVE SubAuthoritySequences(_)
SubAuthoritySequences(n) ==
  IF n = 0 THEN {<<>>}
  ELSE {a \o rest : a \in SubAuthorities, rest \in SubAuthoritySequences(n - 1)}

SidInputs ==
  {TestSid} \cup
  {<< rev, count >> \o authority \o subs :
     rev \in Revisions, count \in 0..MaxSubAuthorities,
     authority \in IdentifierAuthorities,
     subs \in UNION {SubAuthoritySequences(n) : n \in 0..MaxSubAuthorities}}

\* A call of convert_sid on b_sid, before it returns.
SidInit ==
  /\ PipelineAtRest
  /\ OutputAtRest
  /\ KafkaAtRest
  /\ ClickhouseAtRest
  /\ TupleAtRest
  /\ csv = NoCall
  /\ srum = NoCall
  /\ catalog = NoCall
  /\ parse_task = NoCall
  /\ \E b_sid \in SidInputs : sid = [result |-> "called", b_sid |-> b_sid, value |-> ""]

\* The call returns its string, or panics on an index out of range.
ConvertSid ==
  /\ sid.result = "called"
  /\ sid' = IF sid_out_of_range(sid.b_sid)
              THEN [sid EXCEPT !.result = "panic"]
              ELSE [sid EXCEPT !.result = "Ok", !.value = convert_sid(sid.b_sid)]
  /\ UNCHANGED outside_sid

SidNext == ConvertSid

SidSpec == SidInit /\ [][SidNext]_vars

\* The rendering the specification describes, with the integers of TLC: the
\* value of `size` bytes from index `from` (1-based), and its decimal digits.
RECURSIVE BigEndianValue(_, _, _)
BigEndianValue(b, from, size) ==
  IF size = 0 THEN 0
  ELSE 256 * BigEndianValue(b, from, size - 1) + b[from + size - 1]

RECURSIVE LittleEndianValue(_, _, _)
LittleEndianValue(b, from, size) ==
  IF size = 0 THEN 0
  ELSE b[from] + 256 * LittleEndianValue(b, from + 1, size - 1)

RECURSIVE Decimal(_)
Decimal(n) == IF n < 10 THEN Digits[n + 1] ELSE Decimal(n \div 10) \o Digits[(n % 10) + 1]

RECURSIVE RenderedSubAuthorities(_, _)
RenderedSubAuthorities(b, i) ==
  IF i >= b[2] THEN ""
  ELSE "-" \o Decimal(LittleEndianValue(b, 9 + 4 * i, 4)) \o RenderedSubAuthorities(b, i + 1)

Rendered(b) ==
  "S-" \o Decimal(b[1]) \o "-" \o Decimal(BigEndianValue(b, 3, 6)) \o RenderedSubAuthorities(b, 0)

\* The values of b that fit 31 bits.
FitsInteger(b) ==
  /\ b[3] = 0 /\ b[4] = 0 /\ b[5] < 128
  /\ \A i \in 0..(b[2] - 1) : b[12 + 4 * i] < 128

\* C32: for every byte sequence b with n = b[1] and at least 8 + 4n bytes,
\* convert_sid returns S-<rev>-<idauth>-<sub0>-...-<sub(n-1)> with rev = b[0],
\* idauth the big-endian value of b[2..8] and sub_i the little-endian value
\* of the 4 bytes at offset 8 + 4i; the sequence of the test gives the string
\* of the test.
C32_SidRendering ==
  (sid.result = "Ok" /\ Len(sid.b_sid) >= 8 + 4 * sid.b_sid[2]) =>
    /\ FitsInteger(sid.b_sid) => sid.value = Rendered(sid.b_sid)
    /\ sid.b_sid = TestSid => sid.value = TestSidString

\* ---------------------------------------------------------------------------
\* One parse task (archive_parser.rs, create_parsing_threads and parse_file)
\* ---------------------------------------------------------------------------

\* A ParseMsg taken by a parsing thread: the parser of its config, where the
\* thread is, the task's reply channel (its queue, and whether the Sender of
\* the ParseMsg is alive; the archive thread dropped its own), and the
\* archive thread: its num_errors, and the summary once it is sent.
NewTask(parser) ==
  [parser |-> parser, pc |-> "parse_file", reply |-> <<>>, sender |-> TRUE,
   num_errors |-> 0, summary |-> None]

\* parse_file runs parse_evtx on one fan-out, or parse_all_tables.
TaskInit ==
  /\ PipelineAtRest
  /\ KafkaAtRest
  /\ ClickhouseAtRest
  /\ TupleAtRest
  /\ csv = NoCall
  /\ sid = NoCall
  /\ catalog = NoCall
  /\ \E parser \in {"evtx", "srum"} :
       /\ parse_task = NewTask(parser)
       /\ IF parser = "evtx"
          THEN /\ \E n \in 1..MaxSinks : output = Output_new(n)
               /\ decoder = NewDecoder
               /\ srum = NoCall
          ELSE /\ output = NoOutput
               /\ decoder = NoDecoder
               /\ srum = SrumCall(1)

\* How the decoder call of the task stands.
TaskResult == IF parse_task.parser = "evtx" THEN decoder.result ELSE srum.result

\* A decoder whose fan-out outlives its call.
ReplyReadyAtReturn == TaskResult \in {"Ok", "Err"}

\* `let result = parse_file(..)` is bound: the decoder has returned and its
\* local `output` has gone out of scope.
ReplyReady == TaskResult \in {"Ok", "Err"} /\ output.state # "live"

\* The steps of the decoder call.
TaskEvtx ==
  /\ parse_task.parser = "evtx"
  /\ parse_task.pc = "parse_file"
  /\ DecoderWrite \/ DecoderReturn \/ OutputDrop

TaskSrum ==
  /\ parse_task.parser = "srum"
  /\ parse_task.pc = "parse_file"
  /\ SrumOutput \/ SrumRow \/ SrumTableError \/ SrumTableEnd

\* parse_msg.reply.send(result)
TaskReply ==
  /\ parse_task.pc = "parse_file"
  /\ ReplyReady
  /\ parse_task' = [parse_task EXCEPT !.pc = "sent", !.reply = Append(@, TaskResult)]
  /\ UNCHANGED << output_vars, srum_vars, outside_task >>

\* The end of the loop iteration: parse_msg, and its Sender, is dropped.
TaskMsgDrop ==
  /\ parse_task.pc = "sent"
  /\ parse_task' = [parse_task EXCEPT !.pc = "recv", !.sender = FALSE]
  /\ UNCHANGED << output_vars, srum_vars, outside_task >>

\* A panic of the decoder unwinds the thread: the locals of the decoder are
\* dropped first, then parse_msg; no result is sent.
TaskUnwind ==
  /\ parse_task.pc = "parse_file"
  /\ TaskResult = "panic"
  /\ output.state # "live"
  /\ parse_task' = [parse_task EXCEPT !.pc = "panicked", !.sender = FALSE]
  /\ UNCHANGED << output_vars, srum_vars, outside_task >>

\* `while let Ok(result) = receiver.recv()` of the archive thread.
TaskRecvResult ==
  /\ parse_task.summary = None
  /\ parse_task.reply # <<>>
  /\ parse_task' = [parse_task EXCEPT
                      !.reply = Tail(@),
                      !.num_errors = IF Head(parse_task.reply) = "Err" THEN @ + 1 ELSE @]
  /\ UNCHANGED << output_vars, srum_vars, outside_task >>

\* recv() returns Err (no Sender is left, the queue is empty): the summary
\* is built and sent.
TaskSummary ==
  /\ parse_task.summary = None
  /\ parse_task.reply = <<>>
  /\ ~parse_task.sender
  /\ parse_task' = [parse_task EXCEPT !.summary = Some(parse_task.num_errors)]
  /\ UNCHANGED << output_vars, srum_vars, outside_task >>

TaskNext ==
  \/ TaskEvtx
  \/ TaskSrum
  \/ TaskReply
  \/ TaskMsgDrop
  \/ TaskUnwind
  \/ TaskRecvResult
  \/ TaskSummary

TaskSpec == TaskInit /\ [][TaskNext]_vars

\* C34: once the result of a task is sent on its reply channel (or the
\* thread has unwound), and so when the summary of the archive is sent, the
\* fan-out of the task is not open: it was dropped, and every sink of it
\* has been flushed.
C34_FlushBeforeReply ==
  (parse_task.pc \in {"sent", "recv", "panicked"} \/ parse_task.summary # None) =>
    /\ output.state # "live"
    /\ \A i \in 1..Len(output.list) : output.list[i].flushes = 1

\* The summary is sent for a task that returned Ok after two rows on two
\* sinks, both flushed in the drop.
C34_Witness ==
  /\ parse_task.summary = Some(0)
  /\ parse_task.parser = "evtx"
  /\ decoder.result = "Ok"
  /\ output.state = "dropped"
  /\ Len(output.list) = 2
  /\ output.list[2].rows = <<1, 2>>
  /\ output.list[1].flushes = 1 /\ output.list[2].flushes = 1

\* ---------------------------------------------------------------------------
\* The topic catalog (configuration.rs, Configuration::list_topics)
\* ---------------------------------------------------------------------------

\* The longest configuration.parsers that is tried.
MaxParsers == 3

EVTX_TABLE_NAME == "evtx"
HIVE_TABLE_NAME == "hive"

\* configuration.client_context
client_context == "ctx"

\* full_topic_name: format!("{client_context}_{name}")
full_topic_name(context, name) == context \o "_" \o name

\* The parser of a ParserConfig: csv with the topic of its mapping file (or a
\* mapping file that does not exist), evtx, hive, srum.
CsvParser(topic) == [type |-> "csv", topic |-> topic, exists |-> TRUE]
CsvParserNoMapping == [type |-> "csv", topic |-> "", exists |-> FALSE]
OtherParser(type) == [type |-> type, topic |-> "", exists |-> TRUE]

CsvTopics == {"custom", "evtx", "SRUM", "srum_vfuprov"}

ParserTypes ==
  {CsvParser(t) : t \in CsvTopics} \cup {CsvParserNoMapping}
    \cup {OtherParser(type) : type \in {"evtx", "hive", "srum"}}

ParserLists == UNION {[1..n -> ParserTypes] : n \in 0..MaxParsers}

\* A call of list_topics: the parsers, the index the loop is at, `list` (the
\* topic_name of each DataTopic pushed) and `is_parsed`.
CatalogCall(list_of_parsers) ==
  [parsers |-> list_of_parsers, i |-> 1, list |-> <<>>, is_parsed |-> {},
   result |-> "running"]

CatalogInit ==
  /\ PipelineAtRest
  /\ OutputAtRest
  /\ KafkaAtRest
  /\ ClickhouseAtRest
  /\ TupleAtRest
  /\ csv = NoCall
  /\ srum = NoCall
  /\ sid = NoCall
  /\ parse_task = NoCall
  /\ \E list_of_parsers \in ParserLists : catalog = CatalogCall(list_of_parsers)

\* The DataTopic entries of the srum tables, pushed one after the other.
srum_topic_names ==
  [k \in 1..Len(srum_tables) |-> full_topic_name(client_context, srum_tables[k])]

\* The name an arm of the match looks up in is_parsed and inserts.
parsed_name(parser) ==
  CASE parser.type = "csv" -> parser.topic
    [] parser.type = "evtx" -> EVTX_TABLE_NAME
    [] parser.type = "hive" -> HIVE_TABLE_NAME
    [] parser.type = "srum" -> "SRUM"

\* What an arm pushes when its name is not in is_parsed.
pushed(parser) ==
  IF parser.type = "srum" THEN srum_topic_names
  ELSE << full_topic_name(client_context, parsed_name(parser)) >>

\* One iteration of `for conf in &self.parsers`.
list_topics_step(c) ==
  LET parser == c.parsers[c.i] IN
  IF parser.type = "csv" /\ ~parser.exists
  THEN [c EXCEPT !.result = "Err"]
  ELSE IF parsed_name(parser) \in c.is_parsed
  THEN [c EXCEPT !.i = @ + 1]
  ELSE [c EXCEPT !.i = @ + 1,
                 !.is_parsed = @ \cup {parsed_name(parser)},
                 !.list = @ \o pushed(parser)]

ListTopicsStep ==
  /\ catalog.result = "running"
  /\ catalog.i <= Len(catalog.parsers)
  /\ catalog' = list_topics_step(catalog)
  /\ UNCHANGED outside_catalog

\* Ok(list)
ListTopicsReturn ==
  /\ catalog.result = "running"
  /\ catalog.i > Len(catalog.parsers)
  /\ catalog' = [catalog EXCEPT !.result = "Ok"]
  /\ UNCHANGED outside_catalog

CatalogNext == ListTopicsStep \/ ListTopicsReturn

CatalogSpec == CatalogInit /\ [][CatalogNext]_vars

\* The topics the decoder of a parser writes to: parse_csv the topic of its
\* mapping, parse_evtx and parse_hive their table name, parse_all_tables the
\* topic of every srum table.
WrittenTopics(parser) ==
  CASE parser.type = "csv" -> {parser.topic}
    [] parser.type = "evtx" -> {EVTX_TABLE_NAME}
    [] parser.type = "hive" -> {HIVE_TABLE_NAME}
    [] parser.type = "srum" -> {srum_tables[k] : k \in 1..Len(srum_tables)}

WrittenTopicNames(list_of_parsers) ==
  {full_topic_name(client_context, t) :
     t \in UNION {WrittenTopics(list_of_parsers[k]) : k \in 1..Len(list_of_parsers)}}

\* C39: the catalog list_topics returns has exactly one entry for each
\* distinct topic the configured parsers write to: no topic_name twice, no
\* written topic missing, none that is not written.
C39_CatalogOneEntryPerTopic ==
  catalog.result = "Ok" =>
    /\ \A j, k \in 1..Len(catalog.list) :
         catalog.list[j] = catalog.list[k] => j = k
    /\ {catalog.list[k] : k \in 1..Len(catalog.list)} =
         WrittenTopicNames(catalog.parsers)

====
